---- MODULE Spec2Model ----
(***************************************************************************)
(* Verification model of the AI application-generation orchestrator:       *)
(*   - backend process manager  (apis/project_backend_manager)             *)
(*   - tool-calling loop and tool dispatcher (libs/ai_orchestrator)        *)
(*   - auto-healing loop, preview build and error store                    *)
(*   - AgentContext store (libs/ai_context_loader, apis/ai_context)        *)
(*   - file store (apis/ai_agent_tools, libs/code_validator)               *)
(* Each part has its own specification (SpecBackend, SpecTool, SpecStream, *)
(* SpecHeal, SpecFix, SpecContext, SpecTwice, SpecFiles); the variables of *)
(* the other parts stay at their initial value under it.                   *)
(***************************************************************************)
EXTENDS Integers, Sequences, FiniteSets, TLC

\* ------------------------------------------------------------------------
\* Bounds of the model (not program constants)
\* ------------------------------------------------------------------------
\* projects that clients send requests for
NumProjects == 3
\* requests suspended at an await at the same time
MaxInflight == 1
\* context updates in one behaviour
MaxUpdates == 2
\* length of the longest recent_errors list a caller passes
MaxErrorInput == 11
\* file paths the requests name
NumPaths == 1
\* file requests suspended at an await at the same time
MaxFileInflight == 2
\* create_backend_workspace calls in one behaviour
MaxCreates == 2
\* PlanTasks, ApiSpecs and PageSpecs of one plan
MaxPlanTasks == 2
MaxApis == 2
MaxPages == 1
\* calls on one orchestrator instance, and states the project goes through
MaxSessionCalls == 3
MaxProjectStates == 3

\* ------------------------------------------------------------------------
\* Program constants
\* ------------------------------------------------------------------------
BASE_PORT == 8001
MAX_BACKENDS == 100
\* all_errors[-10:]
RecentErrorsCap == 10

VARIABLES
    running_backends,   \* ordered dict project_id -> info, as a sequence of entries
    alive,              \* tracked pids whose process has not exited
    reqs,               \* handlers suspended at an await (restart, list)
    resp                \* response of the handler that completed last

\* execute_tool, called once
VARIABLES
    tool_name,          \* the tool_name argument
    parameters,         \* the kind of value passed as parameters
    handler_outcome,    \* what the dispatched handler does if it is reached
    tool_result         \* what the call gave back

\* _stream_with_tools, one invocation
VARIABLES
    conversation_history,   \* self.conversation_history
    iteration,              \* the loop counter
    tools_executed,         \* names of the tools whose result counted as success
    pending,                \* tool calls of the current response not yet executed
    stream_pc,              \* where the invocation is
    last_chunk,             \* the chunk yielded last
    model_calls             \* chat.completions.create calls made

\* the auto-healing loop, the preview build and the errors table
VARIABLES
    errors_table,       \* rows of the errors table of the project, oldest first
    attempt,            \* the loop variable of the auto-healing loop
    heal_pc,            \* where the auto-healing loop is
    builds,             \* trigger_build calls of the loop
    fixes,              \* model patch calls of the loop
    attempt_fixes,      \* model patch calls of the current attempt
    checked,            \* the current attempt has called get_open_errors
    seen_errors,        \* how many errors that call gave the loop
    fix_queue,          \* errors[:3] not yet handled by the fix loop
    passed,             \* the error dicts the fix loop has handled in this attempt
    build_outcome       \* how the last build_preview call ended

\* the agent_context table and the callers of its update operations
VARIABLES
    agent_context,      \* rows of agent_context of the project (none or one)
    jsonb_as_text,      \* the database connections return jsonb as text
    ctx_resp,           \* the context operation that completed last
    ctx_updates,        \* update calls made
    memory_x,           \* the arguments of the repeated update_memory call
    memory_runs,        \* how often that call has run
    memory_once         \* the table after its first run

\* the file tables and the file handlers
VARIABLES
    project_files,      \* rows of project_files of the project, oldest first
    generated_files,    \* rows of generated_files of the project
    file_reqs,          \* create_file/update_file calls suspended at an await
    file_resp,          \* response of the file handler that completed last
    build_loaded        \* what the last build_preview loaded from the store

\* the package harvest of create_file/update_file for a python file
VARIABLES
    py_request,         \* the python file request being handled
    harvest             \* what the handler handed to the installer

\* the backend workspace of one project on disk
VARIABLES
    workspace,          \* content of each file of the backend workspace
    ws_before,          \* the workspace when the last create_backend_workspace started
    ws_creates,         \* create_backend_workspace calls made
    ws_op,              \* the step taken last
    venv_tasks          \* venv creation tasks started and not finished

\* generate_with_planning, feature_request branch, one message
VARIABLES
    plan,               \* the plan create_project_plan returned
    plan_pc,            \* the step of the branch that runs next
    plan_events,        \* the steps taken, in order
    plan_files,         \* rows of project_files of the project
    plan_results,       \* what each create_file call gave back
    task_ids,           \* ids of the tasks created for this message
    loader,             \* state of self.context_loader
    plan_context,       \* rows of agent_context of the project
    plan_as_text,       \* the loader's connection returns jsonb as text
    env_ok              \* every model call and handler has succeeded so far

\* the snapshot cache of one orchestrator instance
VARIABLES
    context_loaded,     \* self._context_loaded
    cached_context,     \* self._cached_context
    project_state,      \* number of the state the project is in
    loads,              \* load_context calls made
    session_calls,      \* calls made on the instance
    session_pc,         \* where generate_with_planning is
    last_prompt         \* the tool-loop prompt built last

\* recover_from_error
VARIABLES
    retry_count,        \* retry_count
    recover_fixed,      \* fixed
    recover_pc,         \* where recover_from_error is
    error_context,      \* error_context, its parts in order
    run_message,        \* the message the last run of the tool loop was given
    last_failure,       \* str(e) of the last run that raised
    recover_report      \* the closing report

backend_vars == <<running_backends, alive, reqs, resp>>
tool_vars == <<tool_name, parameters, handler_outcome, tool_result>>
stream_vars == <<conversation_history, iteration, tools_executed, pending, stream_pc,
                 last_chunk, model_calls>>

heal_vars == <<errors_table, attempt, heal_pc, builds, fixes, attempt_fixes, checked,
               seen_errors, fix_queue, passed, build_outcome>>

context_vars == <<agent_context, jsonb_as_text, ctx_resp, ctx_updates, memory_x,
                  memory_runs, memory_once>>

file_vars == <<project_files, generated_files, file_reqs, file_resp, build_loaded>>

package_vars == <<py_request, harvest>>

workspace_vars == <<workspace, ws_before, ws_creates, ws_op, venv_tasks>>

plan_vars == <<plan, plan_pc, plan_events, plan_files, plan_results, task_ids, loader, plan_context, plan_as_text, env_ok>>

session_vars == <<context_loaded, cached_context, project_state, loads, session_calls, session_pc, last_prompt>>

recover_vars == <<retry_count, recover_fixed, recover_pc, error_context, run_message, last_failure, recover_report>>

vars == <<backend_vars, tool_vars, stream_vars, heal_vars, context_vars, file_vars,
    package_vars, workspace_vars, plan_vars, session_vars, recover_vars>>

\* what the actions of one part leave alone
NotBackend == <<tool_vars, stream_vars, heal_vars, context_vars, file_vars,
    package_vars, workspace_vars, plan_vars, session_vars, recover_vars>>
NotTool == <<backend_vars, stream_vars, heal_vars, context_vars, file_vars,
    package_vars, workspace_vars, plan_vars, session_vars, recover_vars>>
NotStream == <<backend_vars, tool_vars, heal_vars, context_vars, file_vars,
    package_vars, workspace_vars, plan_vars, session_vars, recover_vars>>
NotHeal == <<backend_vars, tool_vars, stream_vars, context_vars, file_vars,
    package_vars, workspace_vars, plan_vars, session_vars, recover_vars>>
NotContext == <<backend_vars, tool_vars, stream_vars, heal_vars, file_vars,
    package_vars, workspace_vars, plan_vars, session_vars, recover_vars>>
NotFiles == <<backend_vars, tool_vars, stream_vars, heal_vars, context_vars,
    package_vars, workspace_vars, plan_vars, session_vars, recover_vars>>
NotPackages == <<backend_vars, tool_vars, stream_vars, heal_vars, context_vars,
    file_vars, workspace_vars, plan_vars, session_vars, recover_vars>>
NotWorkspace == <<backend_vars, tool_vars, stream_vars, heal_vars, context_vars,
    file_vars, package_vars, plan_vars, session_vars, recover_vars>>
NotPlan == <<backend_vars, tool_vars, stream_vars, heal_vars, context_vars, file_vars,
    package_vars, workspace_vars, session_vars, recover_vars>>
NotSession == <<backend_vars, tool_vars, stream_vars, heal_vars, context_vars,
    file_vars, package_vars, workspace_vars, plan_vars, recover_vars>>
NotRecover == <<backend_vars, tool_vars, stream_vars, heal_vars, context_vars,
    file_vars, package_vars, workspace_vars, plan_vars, session_vars>>

\* ========================================================================
\* Backend process manager
\* ========================================================================
Projects == 1..NumProjects
\* pids the operating system hands out to the backends of these projects
PidPool == 1..NumProjects

\* Projects whose backends were started before the modelled requests arrive
\* and that no modelled request names: they fill the pool up to one free port.
BackgroundCount == MAX_BACKENDS - 1
BackgroundProject(i) == 1000 + i
BackgroundPid(i) == 1000 + i
BackgroundEntries ==
    [i \in 1..BackgroundCount |->
        [project_id |-> BackgroundProject(i), pid |-> BackgroundPid(i),
         port |-> BASE_PORT + (i - 1), status |-> "running"]]

\* dict helpers over the ordered representation
Keys(rb) == [i \in 1..Len(rb) |-> rb[i].project_id]
Has(rb, p) == \E i \in 1..Len(rb) : rb[i].project_id = p
Get(rb, p) == rb[CHOOSE i \in 1..Len(rb) : rb[i].project_id = p]
Del(rb, p) == SelectSeq(rb, LAMBDA e : e.project_id # p)
DictSet(rb, p, info) ==
    IF Has(rb, p)
    THEN [i \in 1..Len(rb) |-> IF rb[i].project_id = p THEN info ELSE rb[i]]
    ELSE Append(rb, info)
TrackedPids(rb) == {rb[i].pid : i \in 1..Len(rb)}

NoPort == 0
NoPid == 0
NoProject == 0

\* allocate_port: the first BASE_PORT + i, i in range(MAX_BACKENDS), that no
\* entry holds; NoPort stands for the raised "No available ports" exception.
LastFreePort(rb) ==
    LET used_ports == {rb[i].port : i \in 1..Len(rb)}
        free == {i \in 0..(MAX_BACKENDS - 1) : (BASE_PORT + i) \notin used_ports}
    IN  IF free = {} THEN NoPort
        ELSE BASE_PORT + (CHOOSE i \in free : \A j \in free : j <= i)

NextAfterCount(rb) ==
    IF Len(rb) >= MAX_BACKENDS THEN NoPort ELSE BASE_PORT + Len(rb)

allocate_port(rb) ==
    LET used_ports == {rb[i].port : i \in 1..Len(rb)}
        free == {i \in 0..(MAX_BACKENDS - 1) : (BASE_PORT + i) \notin used_ports}
    IN  IF free = {} THEN NoPort
        ELSE BASE_PORT + (CHOOSE i \in free : \A j \in free : i <= j)

\* What the filesystem and the OS answer to one start request.
StartEnv == {"no_workspace", "no_main", "no_venv", "no_python", "spawn_error", "ok"}

Response(op, p, code, message, port, pid) ==
    [op |-> op, project_id |-> p, code |-> code, message |-> message,
     port |-> port, pid |-> pid]

\* start_backend: no await between the membership test and the insertion.
\* Result: the new running_backends, the new set of live pids, the response.
StartAlwaysSpawns(rb, al, p, env, newpid) ==
    LET port == allocate_port(rb) IN
    IF env # "ok" \/ port = NoPort
    THEN [rb |-> rb, alive |-> al,
          resp |-> Response("start", p, 500, "Failed to start backend", NoPort, NoPid)]
    ELSE [rb |-> DictSet(rb, p, [project_id |-> p, pid |-> newpid, port |-> port,
                                 status |-> "running"]),
          alive |-> al \cup {newpid},
          resp |-> Response("start", p, 200, "Backend started successfully", port, newpid)]

start_backend(rb, al, p, env, newpid) ==
    IF Has(rb, p)
    THEN [rb |-> rb, alive |-> al,
          resp |-> Response("start", p, 200, "Backend already running",
                            Get(rb, p).port, Get(rb, p).pid)]
    ELSE IF env \in {"no_workspace", "no_main"}
    THEN [rb |-> rb, alive |-> al,
          resp |-> Response("start", p, 404, "not found", NoPort, NoPid)]
    ELSE LET port == allocate_port(rb) IN
         IF env \in {"no_venv", "no_python", "spawn_error"} \/ port = NoPort
         THEN [rb |-> rb, alive |-> al,
               resp |-> Response("start", p, 500, "Failed to start backend", NoPort, NoPid)]
         ELSE [rb |-> DictSet(rb, p, [project_id |-> p, pid |-> newpid, port |-> port,
                                      status |-> "running"]),
               alive |-> al \cup {newpid},
               resp |-> Response("start", p, 200, "Backend started successfully",
                                 port, newpid)]

\* How terminating the process went: it exited on SIGTERM, it had to be
\* killed after the 5 s wait, or terminate()/wait() raised.
StopOutcome == {"graceful", "killed", "error"}

\* a stop that keeps the entry when terminate()/wait() raised
StopKeepsEntryOnError(rb, al, p, outcome) ==
    IF ~Has(rb, p) THEN [rb |-> rb, alive |-> al, ok |-> FALSE]
    ELSE IF outcome = "error" THEN [rb |-> rb, alive |-> al, ok |-> FALSE]
    ELSE [rb |-> Del(rb, p), alive |-> al \ {Get(rb, p).pid}, ok |-> TRUE]

\* stop_backend_process: the entry is deleted on every path, also when
\* terminate()/wait() raised. The model follows a process only while an
\* entry tracks it.
stop_backend_process(rb, al, p, outcome) ==
    IF ~Has(rb, p) THEN [rb |-> rb, alive |-> al, ok |-> FALSE]
    ELSE [rb |-> Del(rb, p), alive |-> al \ {Get(rb, p).pid}, ok |-> outcome # "error"]

\* psutil probe of a tracked pid: a live process is running; for a process
\* that has exited the host decides (still in the process table, no longer
\* running, or no such process).
ProbeOutcomes(al, pid) ==
    IF pid \in al THEN {"running"} ELSE {"running", "not_running", "no_such_process"}

\* get_backend_status: only the NoSuchProcess branch deletes the entry. The
\* await of the health check comes after the last access to running_backends.
get_backend_status(rb, al, p, probe) ==
    IF ~Has(rb, p)
    THEN [rb |-> rb, alive |-> al, status |-> "stopped", awaited |-> FALSE]
    ELSE IF probe = "running"
    THEN [rb |-> rb, alive |-> al, status |-> "running", awaited |-> TRUE]
    ELSE IF probe = "not_running"
    THEN [rb |-> rb, alive |-> al, status |-> "stopped", awaited |-> FALSE]
    ELSE [rb |-> Del(rb, p), alive |-> al \ {Get(rb, p).pid},
          status |-> "stopped", awaited |-> FALSE]

\* list_backends runs get_backend_status over a snapshot of the keys; it is
\* suspended only inside a status call that awaits the health check. The
\* result is every (running_backends, remaining keys) the run can stop at.
\* The status calls for the background projects are left out of the run
\* (ListKeys): their processes stay alive and no modelled request names them,
\* so such a call changes nothing, and a request running between two of them
\* sees and causes nothing it would not before or after.
RECURSIVE ListRun(_, _, _)
ListRun(rb, al, keys) ==
    IF keys = <<>> THEN {[rb |-> rb, alive |-> al, keys |-> <<>>, done |-> TRUE]}
    ELSE LET p == Head(keys)
             probes == IF Has(rb, p) THEN ProbeOutcomes(al, Get(rb, p).pid)
                       ELSE {"no_entry"}
         IN  UNION { LET r == get_backend_status(rb, al, p, probe) IN
                     IF r.awaited
                     THEN {[rb |-> r.rb, alive |-> r.alive, keys |-> Tail(keys),
                            done |-> FALSE]}
                     ELSE ListRun(r.rb, r.alive, Tail(keys))
                   : probe \in probes }

ListKeys(rb) == SelectSeq(Keys(rb), LAMBDA k : k \in Projects)

\* stop_all_backends: stop_backend_process for every key of a snapshot, with
\* no await in between; every entry is deleted whatever terminate() did.
stop_all_backends(rb, al) ==
    [rb |-> SelectSeq(rb, LAMBDA e : ~Has(rb, e.project_id)),
     alive |-> al \ TrackedPids(rb)]

\* The pid the OS gives the next spawned process: one that no tracked
\* process has. Pids are interchangeable (the code only stores and probes
\* them), so the lowest one stands for any.
FreshPids ==
    LET free == PidPool \ TrackedPids(running_backends)
    IN  {pid \in free : \A q \in free : pid <= q}

\* no backend runs, or the background projects hold all ports but one
BackendInitial ==
    /\ running_backends \in {<<>>, BackgroundEntries}
    /\ alive = TrackedPids(running_backends)
    /\ reqs = <<>>
    /\ resp = Response("none", NoProject, 0, "", NoPort, NoPid)

IdleBackend ==
    /\ running_backends = <<>>
    /\ alive = {}
    /\ reqs = <<>>
    /\ resp = Response("none", NoProject, 0, "", NoPort, NoPid)

RemoveAt(s, i) == [j \in 1..(Len(s) - 1) |-> IF j < i THEN s[j] ELSE s[j + 1]]

\* POST /start/{project_id}
StartReq(p) ==
    \E env \in StartEnv, newpid \in FreshPids :
        LET r == start_backend(running_backends, alive, p, env, newpid) IN
        /\ running_backends' = r.rb
        /\ alive' = r.alive
        /\ resp' = r.resp
        /\ UNCHANGED <<reqs, NotBackend>>

\* POST /stop/{project_id}
StopReq(p) ==
    \E outcome \in StopOutcome :
        IF ~Has(running_backends, p)
        THEN /\ resp' = Response("stop", p, 404, "No running backend found", NoPort, NoPid)
             /\ UNCHANGED <<running_backends, alive, reqs, NotBackend>>
        ELSE LET r == stop_backend_process(running_backends, alive, p, outcome) IN
             /\ running_backends' = r.rb
             /\ alive' = r.alive
             /\ resp' = Response("stop", p, 200,
                                 IF r.ok THEN "Backend stopped" ELSE "Failed to stop backend",
                                 NoPort, NoPid)
             /\ UNCHANGED <<reqs, NotBackend>>

\* POST /restart/{project_id}, up to the sleep(1) after the stop
RestartStop(p) ==
    /\ Has(running_backends, p)
    /\ Len(reqs) < MaxInflight
    /\ \E outcome \in StopOutcome :
        LET r == stop_backend_process(running_backends, alive, p, outcome) IN
        /\ running_backends' = r.rb
        /\ alive' = r.alive
    /\ reqs' = Append(reqs, [op |-> "restart", project_id |-> p, keys |-> <<>>])
    /\ UNCHANGED <<resp, NotBackend>>

\* POST /restart/{project_id} when the project has no entry: no await is reached
RestartNoEntry(p) ==
    /\ ~Has(running_backends, p)
    /\ \E env \in StartEnv, newpid \in FreshPids :
        LET r == start_backend(running_backends, alive, p, env, newpid) IN
        /\ running_backends' = r.rb
        /\ alive' = r.alive
        /\ resp' = [r.resp EXCEPT !.op = "restart"]
    /\ UNCHANGED <<reqs, NotBackend>>

\* restart resumes after the sleep and calls start_backend
RestartStart(i) ==
    /\ reqs[i].op = "restart"
    /\ \E env \in StartEnv, newpid \in FreshPids :
        LET r == start_backend(running_backends, alive, reqs[i].project_id, env, newpid) IN
        /\ running_backends' = r.rb
        /\ alive' = r.alive
        /\ resp' = [r.resp EXCEPT !.op = "restart"]
    /\ reqs' = RemoveAt(reqs, i)
    /\ UNCHANGED NotBackend

\* GET /status/{project_id}
StatusReq(p) ==
    \E probe \in (IF Has(running_backends, p)
                  THEN ProbeOutcomes(alive, Get(running_backends, p).pid)
                  ELSE {"no_entry"}) :
        LET r == get_backend_status(running_backends, alive, p, probe) IN
        /\ running_backends' = r.rb
        /\ alive' = r.alive
        /\ resp' = Response("status", p, 200, r.status,
                            IF Has(running_backends, p) THEN Get(running_backends, p).port
                            ELSE NoPort,
                            IF r.status = "running" THEN Get(running_backends, p).pid
                            ELSE NoPid)
        /\ UNCHANGED <<reqs, NotBackend>>

ListFinish(r, rest) ==
    /\ UNCHANGED NotBackend
    /\ running_backends' = r.rb
    /\ alive' = r.alive
    /\ IF r.done
       THEN /\ reqs' = rest
            /\ resp' = Response("list", NoProject, 200, "listed", NoPort, NoPid)
       ELSE /\ Len(rest) < MaxInflight
            /\ reqs' = Append(rest, [op |-> "list", project_id |-> NoProject, keys |-> r.keys])
            /\ UNCHANGED resp

\* GET /list, up to its first suspension or its end
ListReq ==
    \E r \in ListRun(running_backends, alive, ListKeys(running_backends)) :
        ListFinish(r, reqs)

\* GET /list resumes with the rest of its key snapshot
ListResume(i) ==
    /\ reqs[i].op = "list"
    /\ \E r \in ListRun(running_backends, alive, reqs[i].keys) :
        ListFinish(r, RemoveAt(reqs, i))

\* POST /stop-all
StopAllReq ==
    /\ running_backends # <<>>
    /\ LET r == stop_all_backends(running_backends, alive) IN
        /\ running_backends' = r.rb
        /\ alive' = r.alive
    /\ resp' = Response("stop-all", NoProject, 200, "stopped all", NoPort, NoPid)
    /\ UNCHANGED <<reqs, NotBackend>>

\* a tracked backend process exits on its own (crash)
Crash(pid) ==
    /\ pid \in alive
    /\ alive' = alive \ {pid}
    /\ UNCHANGED <<running_backends, reqs, resp, NotBackend>>

NextBackend ==
    \/ \E p \in Projects : StartReq(p)
    \/ \E p \in Projects : StopReq(p)
    \/ \E p \in Projects : RestartStop(p)
    \/ \E p \in Projects : RestartNoEntry(p)
    \/ \E i \in 1..Len(reqs) : RestartStart(i)
    \/ \E p \in Projects : StatusReq(p)
    \/ ListReq
    \/ \E i \in 1..Len(reqs) : ListResume(i)
    \/ StopAllReq
    \/ \E pid \in PidPool : Crash(pid)

\* ------------------------------------------------------------------------
\* Claims about the backend process manager
\* ------------------------------------------------------------------------
PortRange == BASE_PORT..(BASE_PORT + MAX_BACKENDS - 1)
HeldPorts(rb) == {rb[i].port : i \in 1..Len(rb)}

\* C8: in every reachable state running_backends holds at most MAX_BACKENDS
\* entries, every port in it lies in [BASE_PORT, BASE_PORT + MAX_BACKENDS), and
\* the ports of distinct projects are pairwise distinct.
C8_PortPoolInvariant ==
    /\ Len(running_backends) <= MAX_BACKENDS
    /\ \A i \in 1..Len(running_backends) : running_backends[i].port \in PortRange
    /\ \A i, j \in 1..Len(running_backends) :
          running_backends[i].project_id # running_backends[j].project_id
              => running_backends[i].port # running_backends[j].port

\* the pool is full and a start was refused for it
C8_Witness ==
    /\ Len(running_backends) = MAX_BACKENDS
    /\ resp.op = "start" /\ resp.code = 500
    /\ ~Has(running_backends, resp.project_id)

\* C9: a successful start of a project that has no entry gives it the lowest
\* port of the range that no entry held when the start ran.
C9_LowestFreePort ==
    [][\A p \in Projects :
          (~Has(running_backends, p) /\ Has(running_backends', p)) =>
              LET free == PortRange \ HeldPorts(running_backends)
                  got == Get(running_backends', p).port
              IN  got \in free /\ \A q \in free : got <= q]_vars

\* a start was given BASE_PORT + 1 while other projects hold BASE_PORT and
\* BASE_PORT + 2: the port a stop released is reused before a higher one
C9_Witness ==
    /\ resp.op = "start" /\ resp.message = "Backend started successfully"
    /\ resp.port = BASE_PORT + 1
    /\ Len(running_backends) = 3
    /\ running_backends[3].project_id = resp.project_id
    /\ running_backends[3].port = BASE_PORT + 1
    /\ {running_backends[1].port, running_backends[2].port} = {BASE_PORT, BASE_PORT + 2}

\* C10: a start request for a project that has an entry leaves
\* running_backends and the processes as they are and answers with the
\* entry's pid and port; no project ever has two entries.
C10_StartIdempotent ==
    /\ [][\A p \in Projects :
            (Has(running_backends, p) /\ StartReq(p)) =>
                /\ running_backends' = running_backends
                /\ alive' = alive
                /\ resp'.code = 200
                /\ resp'.port = Get(running_backends, p).port
                /\ resp'.pid = Get(running_backends, p).pid]_vars
    /\ [](\A i, j \in 1..Len(running_backends) :
            running_backends[i].project_id = running_backends[j].project_id => i = j)

\* a start request found its project running and answered from the entry
C10_Witness ==
    /\ resp.op = "start" /\ resp.message = "Backend already running"
    /\ Has(running_backends, resp.project_id)
    /\ resp.pid = Get(running_backends, resp.project_id).pid

\* C11: a stop request for a project that has an entry leaves the project
\* without entry and its port free for allocation, whether the process
\* ended on SIGTERM, had to be killed or terminating it raised; the entries
\* of the other projects are as before.
C11_StopRemovesEntry ==
    [][\A p \in Projects :
          (Has(running_backends, p) /\ StopReq(p)) =>
              /\ ~Has(running_backends', p)
              /\ Get(running_backends, p).port \notin HeldPorts(running_backends')
              /\ running_backends' = Del(running_backends, p)
              /\ allocate_port(running_backends') # NoPort
              /\ allocate_port(running_backends') <= Get(running_backends, p).port]_vars

\* a stop whose terminate()/wait() raised has completed, other projects
\* still have their entries and the stopped one has none
C11_Witness ==
    /\ resp.op = "stop" /\ resp.message = "Failed to stop backend"
    /\ ~Has(running_backends, resp.project_id)
    /\ running_backends # <<>>

\* C12: whenever a status request reports "stopped" for a project, the
\* project has no entry afterwards: a probe that finds the process gone (no
\* such pid, or a pid that is no longer running) removes the entry.
C12_StatusRemovesGoneProcess ==
    (resp.op = "status" /\ resp.message = "stopped") =>
        ~Has(running_backends, resp.project_id)

\* a status request found the pid of an exited process no longer running,
\* answered "stopped", and the entry is still there
C12_Witness ==
    /\ resp.op = "status" /\ resp.message = "stopped"
    /\ Has(running_backends, resp.project_id)
    /\ Get(running_backends, resp.project_id).pid \notin alive

\* a status request changes at most the entry of the project it names
C12_StatusTouchesOneEntry ==
    [][\A p \in Projects :
          (Has(running_backends, p) /\ StatusReq(p)) =>
              running_backends' \in {running_backends, Del(running_backends, p)}]_vars

\* C13: every entry of running_backends is backed by a live process of its
\* own: no entry holds a port for a process that has exited or crashed, and
\* no two entries name the same process.
C13_HeldPortsAreLive ==
    /\ \A i \in 1..Len(running_backends) : running_backends[i].pid \in alive
    /\ \A i, j \in 1..Len(running_backends) :
          running_backends[i].pid = running_backends[j].pid => i = j

\* an entry holds a port of the range for a process that has exited
C13_Witness ==
    \E i \in 1..Len(running_backends) :
        /\ running_backends[i].pid \notin alive
        /\ running_backends[i].port \in PortRange

\* C14: a start that could not spawn and a stop that could not terminate are
\* answered with a 5xx status, and the project has no entry afterwards.
C14_FailuresAre500AndCleared ==
    (resp.message \in {"Failed to start backend", "Failed to stop backend"}) =>
        /\ resp.code >= 500 /\ resp.code <= 599
        /\ ~Has(running_backends, resp.project_id)

\* a stop whose terminate()/wait() raised was answered with status 200
C14_Witness ==
    /\ resp.op = "stop" /\ resp.message = "Failed to stop backend"
    /\ resp.code = 200
    /\ ~Has(running_backends, resp.project_id)

\* the spawn half of C14: a failed start is answered 500 and leaves no entry
C14_SpawnFailures ==
    (resp.message = "Failed to start backend") =>
        (resp.code = 500 /\ ~Has(running_backends, resp.project_id))

\* ========================================================================
\* Tool dispatcher (AIOrchestrator.execute_tool)
\* ========================================================================
\* the names of the elif chain
Dispatched ==
    {"create_task", "update_task", "list_tasks", "delete_task", "add_task_comment",
     "create_file", "update_file", "read_files", "search_code", "delete_file",
     "run_migration", "run_sql_query", "get_sql_schema", "run_python_script",
     "read_logs", "test_endpoint", "troubleshoot", "enable_integration",
     "install_packages", "visualize_data", "request_data",
     "trigger_build", "get_open_errors", "resolve_error"}

\* the function names of the list get_all_tools returns, which
\* _stream_with_tools passes to the model as tools
get_all_tools ==
    {"create_task", "update_task", "list_tasks", "delete_task", "add_task_comment",
     "create_file", "update_file", "read_files", "search_code", "delete_file",
     "get_project_stats", "get_file_tree",
     "run_sql_query", "get_sql_schema", "run_migration", "run_python_script",
     "read_logs", "test_endpoint", "troubleshoot", "enable_integration",
     "list_integrations", "install_packages", "visualize_data", "request_data"}

\* a name the model can send that the chain does not know
UnknownTool == "no_such_tool"

\* Branches that raise before or after the handler whatever it does: a keyword
\* the handler does not take (list_tasks, delete_task, read_files,
\* get_sql_schema, read_logs), a request model without its required field
\* (search_code, test_endpoint, troubleshoot, visualize_data), a name the
\* module does not export (delete_file, resolve_error), an attribute read on
\* the dict the handler returns (get_open_errors).
AdapterRaises ==
    {"list_tasks", "delete_task", "read_files", "search_code", "delete_file",
     "get_sql_schema", "read_logs", "test_endpoint", "troubleshoot",
     "visualize_data", "get_open_errors", "resolve_error"}

\* branches that copy success from the handler's result
SuccessFromResult == {"create_task", "update_task", "install_packages"}

\* branches that never read parameters
NoParameters == {"trigger_build", "get_open_errors"}

\* branches that copy data of the handler's result into theirs
PassesData == {"create_task", "update_task", "run_sql_query", "run_python_script"}

\* parameters: a JSON object, or another JSON value (a list, a string, a number)
ParameterKinds == {"object", "non_object"}

\* the handler returns, returns a result that says success = False, or raises
\* (the request model rejecting the fields counts as raising)
HandlerOutcomes == {"returns", "reports_failure", "raises"}

NoResult == [kind |-> "none"]

\* a returned dict: its success, its error key ("none": no such key), whether
\* it has a traceback key, and its errors and files keys (<<>>: no such key,
\* which is what .get(key, []) makes of it)
Result(success, error, traceback) ==
    [kind |-> "return", success |-> success, error |-> error, traceback |-> traceback,
     errors |-> <<>>, files |-> <<>>]

Raised == [kind |-> "raise"]

ExecuteToolUncaught(name, params, outcome) ==
    IF name \notin Dispatched THEN Result(FALSE, "unknown_tool", FALSE)
    ELSE IF params = "non_object" /\ name \notin NoParameters THEN Raised
    ELSE IF name \in AdapterRaises THEN Raised
    ELSE IF outcome = "raises" THEN Raised
    ELSE IF name \in SuccessFromResult THEN Result(outcome = "returns", "none", FALSE)
    ELSE Result(TRUE, "none", FALSE)

\* execute_tool: the chain runs inside try ... except Exception
execute_tool(name, params, outcome) ==
    IF name \notin Dispatched THEN Result(FALSE, "unknown_tool", FALSE)
    ELSE IF params = "non_object" /\ name \notin NoParameters
    THEN Result(FALSE, "execution_failed", TRUE)
    ELSE IF name \in AdapterRaises THEN Result(FALSE, "execution_failed", TRUE)
    ELSE IF outcome = "raises" THEN Result(FALSE, "execution_failed", TRUE)
    ELSE IF name \in SuccessFromResult THEN Result(outcome = "returns", "none", FALSE)
    ELSE Result(TRUE, "none", FALSE)

IdleTool ==
    /\ tool_name = UnknownTool
    /\ parameters = "object"
    /\ handler_outcome = "returns"
    /\ tool_result = NoResult

\* every tool name, parameter kind and handler behaviour
ToolInputs ==
    /\ tool_name \in Dispatched \cup get_all_tools \cup {UnknownTool}
    /\ parameters \in ParameterKinds
    /\ handler_outcome \in HandlerOutcomes
    /\ tool_result = NoResult

\* one call of execute_tool with the drawn arguments
ExecuteTool ==
    /\ tool_result = NoResult
    /\ tool_result' = execute_tool(tool_name, parameters, handler_outcome)
    /\ UNCHANGED <<tool_name, parameters, handler_outcome, NotTool>>

NextTool == ExecuteTool

\* ------------------------------------------------------------------------
\* Claims about the tool dispatcher
\* ------------------------------------------------------------------------
\* C3: execute_tool never raises: for every tool name and parameter value it
\* returns an object with a success field; an exception inside a dispatched
\* branch gives success false with an error and a traceback, and a name that
\* is not dispatched gives success false with the unknown-tool error.
C3_ExecuteToolNeverRaises ==
    tool_result # NoResult =>
        /\ tool_result.kind = "return"
        /\ tool_result.success \in BOOLEAN
        /\ (tool_name \in Dispatched /\ handler_outcome = "raises"
                /\ (parameters = "object" \/ tool_name \in NoParameters)) =>
              (~tool_result.success /\ tool_result.error = "execution_failed"
                  /\ tool_result.traceback)
        /\ (tool_name \in AdapterRaises \/
                (tool_name \in Dispatched \ NoParameters /\ parameters = "non_object")) =>
              (~tool_result.success /\ tool_result.error = "execution_failed"
                  /\ tool_result.traceback)
        /\ tool_name \notin Dispatched =>
              (~tool_result.success /\ tool_result.error = "unknown_tool")

\* a dispatched handler raised and the call returned the failure
C3_Witness ==
    /\ tool_name = "create_file" /\ parameters = "object" /\ handler_outcome = "raises"
    /\ tool_result # NoResult
    /\ tool_result.kind = "return" /\ ~tool_result.success

\* C29: every tool name advertised to the model by get_all_tools is mapped
\* to a handler by execute_tool: a call to an advertised tool never ends in
\* the unknown-tool result.
C29_AdvertisedAreDispatched ==
    (tool_name \in get_all_tools /\ tool_result # NoResult) =>
        tool_result.error # "unknown_tool"

\* a call to the advertised get_file_tree ended in the unknown-tool result
C29_Witness ==
    /\ tool_name = "get_file_tree" /\ parameters = "object"
    /\ handler_outcome = "returns"
    /\ tool_result # NoResult
    /\ ~tool_result.success /\ tool_result.error = "unknown_tool"

\* the advertised names that the chain knows do not end in the unknown-tool
\* result
C29_DispatchedAdvertised ==
    (tool_name \in get_all_tools \cap Dispatched /\ tool_result # NoResult) =>
        tool_result.error # "unknown_tool"

\* ========================================================================
\* Tool-calling loop (AIOrchestrator._stream_with_tools)
\* ========================================================================
\* default of the max_iterations parameter
max_iterations == 5

\* tool calls in one model response
MaxToolCalls == 2
\* tool calls over one invocation
MaxTotalCalls == 5

\* the tools the modelled responses name: one of each kind of branch
StreamTools == {"install_packages", "run_sql_query", "get_open_errors", UnknownTool}

\* tool_call.function.arguments: text of a JSON object, of another JSON value,
\* or text that json.loads rejects
ArgumentTexts == {"object", "non_object", "invalid"}

UserMessage == [role |-> "user"]
AssistantMessage(ids) == [role |-> "assistant", tool_calls |-> ids]
ToolMessage(id, success, error) ==
    [role |-> "tool", tool_call_id |-> id,
     content |-> [success |-> success, error |-> error]]

\* the id the model gives the k-th tool call of its it-th response
ToolCallId(it, k) == it * 10 + k

ToolMessages(h) == {j \in DOMAIN h : h[j].role = "tool"}

LoopOffByOne(it) == it <= max_iterations

\* while iteration < max_iterations
LoopContinues(it) == it < max_iterations

IdleStream ==
    /\ conversation_history = <<>>
    /\ iteration = 0
    /\ tools_executed = <<>>
    /\ pending = <<>>
    /\ stream_pc = "idle"
    /\ last_chunk = "none"
    /\ model_calls = 0

\* entry of the invocation up to the loop
StreamStart ==
    /\ stream_pc = "idle"
    /\ conversation_history' = Append(conversation_history, UserMessage)
    /\ iteration' = 0
    /\ tools_executed' = <<>>
    /\ stream_pc' = "loop"
    /\ UNCHANGED <<pending, last_chunk, model_calls, NotStream>>

\* one pass of the loop head: the model call and what follows it up to the
\* first tool call. The call is outside every try: if it raises, the
\* exception leaves the generator.
ModelCall ==
    /\ stream_pc = "loop"
    /\ LoopContinues(iteration)
    /\ iteration' = iteration + 1
    /\ model_calls' = model_calls + 1
    /\ UNCHANGED <<tools_executed, NotStream>>
    /\ \/ /\ stream_pc' = "raised"
          /\ UNCHANGED <<conversation_history, pending, last_chunk>>
       \/ \E content \in BOOLEAN :
             /\ conversation_history' = Append(conversation_history, AssistantMessage(<<>>))
             /\ last_chunk' = IF content THEN "content" ELSE last_chunk
             /\ stream_pc' = "after_loop"
             /\ UNCHANGED pending
       \/ \E n \in 1..MaxToolCalls :
             /\ Cardinality(ToolMessages(conversation_history)) + n <= MaxTotalCalls
             /\ LET ids == [k \in 1..n |-> ToolCallId(iteration', k)] IN
                /\ conversation_history' = Append(conversation_history, AssistantMessage(ids))
                /\ pending' = ids
             /\ last_chunk' = "executing_tools"
             /\ stream_pc' = "tools"

\* the body of "for tool_call in message_obj.tool_calls" for the next call
\* (serializable: whether json.dumps accepts the data the handler returned)
RunToolCall(name, text, outcome, serializable) ==
    LET id == Head(pending)
        result == execute_tool(name, text, outcome)
        dumped == serializable \/ name \notin PassesData \/ ~result.success
    IN
    /\ stream_pc = "tools"
    /\ pending # <<>>
    /\ IF text = "invalid"
       THEN /\ conversation_history' =
                 Append(conversation_history, ToolMessage(id, FALSE, TRUE))
            /\ UNCHANGED tools_executed
       ELSE /\ tools_executed' =
                 IF result.kind = "return" /\ result.success
                 THEN Append(tools_executed, name) ELSE tools_executed
            /\ conversation_history' =
                 IF result.kind = "return" /\ dumped
                 THEN Append(conversation_history,
                             ToolMessage(id, result.success, result.error # "none"))
                 ELSE Append(conversation_history, ToolMessage(id, FALSE, TRUE))
    /\ pending' = Tail(pending)
    /\ IF pending' = <<>>
       THEN stream_pc' = "loop" /\ last_chunk' = "newline"
       ELSE /\ stream_pc' = "tools"
            /\ last_chunk' =
                 IF text = "invalid" \/ result.kind # "return" \/ ~dumped THEN "error_mark"
                 ELSE IF result.success THEN "ok_mark" ELSE "warn_mark"
    /\ UNCHANGED <<iteration, model_calls, NotStream>>

\* after the loop: the context update (its exceptions are swallowed) and the
\* warning
StreamFinish ==
    /\ \/ stream_pc = "after_loop"
       \/ stream_pc = "loop" /\ ~LoopContinues(iteration)
    /\ last_chunk' = IF iteration >= max_iterations THEN "max_iterations_warning"
                     ELSE last_chunk
    /\ stream_pc' = "done"
    /\ UNCHANGED <<conversation_history, iteration, tools_executed, pending, model_calls,
                   NotStream>>

NextStream ==
    \/ StreamStart
    \/ ModelCall
    \/ \E name \in StreamTools, text \in ArgumentTexts, outcome \in HandlerOutcomes,
          serializable \in BOOLEAN : RunToolCall(name, text, outcome, serializable)
    \/ StreamFinish

\* ------------------------------------------------------------------------
\* Claims about the tool-calling loop
\* ------------------------------------------------------------------------
\* the messages of the current invocation: those after its user message
TurnStart(h) == CHOOSE i \in DOMAIN h : h[i].role = "user" /\ \A j \in DOMAIN h :
                                            h[j].role = "user" => j <= i
TurnAssistants(h) == {i \in DOMAIN h : i > TurnStart(h) /\ h[i].role = "assistant"}

\* the messages after assistant message i up to the next assistant message
\* are the tool messages of its tool calls, in their order
FollowedByItsResults(h, i) ==
    LET ids == h[i].tool_calls IN
    /\ i + Len(ids) <= Len(h)
    /\ \A k \in 1..Len(ids) :
          h[i + k].role = "tool" /\ h[i + k].tool_call_id = ids[k]
    /\ (i + Len(ids) < Len(h)) => h[i + Len(ids) + 1].role = "assistant"

\* what is left to do at most: decreases with every step of a running invocation
StreamMeasure ==
    (max_iterations - iteration) * (MaxToolCalls + 2) + Len(pending)
        + (IF stream_pc \in {"loop", "tools", "after_loop"} THEN 1 ELSE 0)

StreamRunning == stream_pc \in {"loop", "tools", "after_loop"}
StreamProgress == StreamMeasure' < StreamMeasure /\ StreamMeasure' >= 0

\* C1: an invocation of _stream_with_tools ends after at most 5 model calls
\* whatever the model answers (every step of a running invocation brings it
\* closer to its end and a running invocation always has a step); when every
\* response requested a tool call, 5 model calls were made, the dialog grew by
\* 5 assistant messages each followed by its tool messages, and the chunk
\* emitted last is the maximum-iterations warning.
C1_BoundedToolLoop ==
    /\ [](model_calls <= max_iterations /\ iteration = model_calls)
    /\ [](StreamRunning => ENABLED NextStream)
    /\ [][StreamRunning => StreamProgress]_stream_vars
    /\ []((stream_pc = "done" /\ \A i \in TurnAssistants(conversation_history) :
                                    conversation_history[i].tool_calls # <<>>) =>
            /\ model_calls = max_iterations
            /\ Cardinality(TurnAssistants(conversation_history)) = max_iterations
            /\ \A i \in TurnAssistants(conversation_history) :
                  FollowedByItsResults(conversation_history, i)
            /\ last_chunk = "max_iterations_warning")

\* an invocation ended in which all 5 responses requested tools
C1_Witness ==
    /\ stream_pc = "done"
    /\ model_calls = max_iterations
    /\ \A i \in TurnAssistants(conversation_history) :
          conversation_history[i].tool_calls # <<>>
    /\ Cardinality(ToolMessages(conversation_history)) >= max_iterations
    /\ last_chunk = "max_iterations_warning"

\* C2: every tool call of an assistant response (also one whose handler
\* fails, whose name is unknown or whose arguments are not valid JSON) is
\* answered by exactly one tool message with its tool_call_id, placed after
\* the assistant message and before the next model call, and a tool message
\* that says success false carries an error.
C2_EveryToolCallAnswered ==
    \A i \in DOMAIN conversation_history :
        conversation_history[i].role = "assistant" =>
            \A k \in DOMAIN conversation_history[i].tool_calls :
                LET id == conversation_history[i].tool_calls[k]
                    answers == {j \in ToolMessages(conversation_history) :
                                   conversation_history[j].tool_call_id = id}
                IN  /\ Cardinality(answers) <= 1
                    /\ (\A q \in DOMAIN pending : pending[q] # id) =>
                          Cardinality(answers) = 1
                    /\ stream_pc # "tools" => Cardinality(answers) = 1
                    /\ \A j \in answers :
                          /\ j > i
                          /\ \A m \in (i + 1)..j : conversation_history[m].role = "tool"
                          /\ ~conversation_history[j].content.success =>
                                conversation_history[j].content.error

\* the same without the demand that a failure carries an error key
C2_AnsweredOnce ==
    \A i \in DOMAIN conversation_history :
        conversation_history[i].role = "assistant" =>
            \A k \in DOMAIN conversation_history[i].tool_calls :
                LET id == conversation_history[i].tool_calls[k]
                    answers == {j \in ToolMessages(conversation_history) :
                                   conversation_history[j].tool_call_id = id}
                IN  /\ Cardinality(answers) <= 1
                    /\ (\A q \in DOMAIN pending : pending[q] # id) =>
                          Cardinality(answers) = 1
                    /\ stream_pc # "tools" => Cardinality(answers) = 1
                    /\ \A j \in answers :
                          /\ j > i
                          /\ \A m \in (i + 1)..j : conversation_history[m].role = "tool"

\* a tool call was answered with success false and no error key
C2_FailureWithoutError ==
    \E j \in ToolMessages(conversation_history) :
        /\ ~conversation_history[j].content.success
        /\ ~conversation_history[j].content.error

\* ========================================================================
\* Preview build, errors table and auto-healing loop
\* ========================================================================
\* rows of the errors table the model holds at most
MaxErrors == 3
\* regex matches in the output of one failed bundler run
MaxParsed == 2

\* max_attempts of the auto-healing loop
max_attempts == 3
\* errors[:3]: errors handled per attempt
ErrorsPerAttempt == 3

ErrorRow(id, error_type, status) == [id |-> id, error_type |-> error_type, status |-> status]

\* INSERT INTO errors (...) VALUES (..., 'open')
InsertError(table, error_type) ==
    Append(table, ErrorRow(Len(table) + 1, error_type, "open"))

RECURSIVE InsertErrors(_, _, _)
InsertErrors(table, error_type, n) ==
    IF n = 0 THEN table ELSE InsertErrors(InsertError(table, error_type), error_type, n - 1)

\* UPDATE errors SET status = 'resolved' WHERE id = $1
MarkResolved(table, id) ==
    [i \in DOMAIN table |-> IF table[i].id = id THEN [table[i] EXCEPT !.status = "resolved"]
                            ELSE table[i]]

Reverse(seq) == [i \in 1..Len(seq) |-> seq[Len(seq) + 1 - i]]

\* the get_open_errors handler: status = 'open' ORDER BY created_at DESC
OpenErrors(table) == Reverse(SelectSeq(table, LAMBDA row : row.status = "open"))

\* what one build_preview call meets: no active generated file, only backend
\* files, a failing query, npm install failing, the bundler failing, success
BuildEnv == {"no_files", "no_frontend_files", "db_error", "install_failed",
             "bundler_failed", "ok"}

NoBuild == [env |-> "none", by |-> "none", raised |-> FALSE, status |-> 0,
            success |-> FALSE, logs |-> FALSE, parsed |-> 0, inserted |-> 0]

BuildOutcome(env, raised, status, success, logs, parsed, inserted) ==
    [env |-> env, by |-> "request", raised |-> raised, status |-> status,
     success |-> success, logs |-> logs, parsed |-> parsed, inserted |-> inserted]

\* parse_and_report_build_errors: one row per regex match
parse_and_report_build_errors(table, parsed) == InsertErrors(table, "build", parsed)

\* build_preview: the new errors table and how the call ended. The 404 and
\* 400 are returned as a JSONResponse with the logs; every exception,
\* the one raised after a bundler failure included, becomes HTTPException(500).
build_preview(table, env, parsed) ==
    IF env = "no_files"
    THEN [table |-> table, out |-> BuildOutcome(env, FALSE, 404, FALSE, TRUE, 0, 0)]
    ELSE IF env = "no_frontend_files"
    THEN [table |-> table, out |-> BuildOutcome(env, FALSE, 400, FALSE, TRUE, 0, 0)]
    ELSE IF env \in {"db_error", "install_failed"}
    THEN [table |-> table, out |-> BuildOutcome(env, TRUE, 500, FALSE, FALSE, 0, 0)]
    ELSE IF env = "bundler_failed"
    THEN [table |-> parse_and_report_build_errors(table, parsed),
          out |-> BuildOutcome(env, TRUE, 500, FALSE, FALSE, parsed, parsed)]
    ELSE [table |-> table, out |-> BuildOutcome(env, FALSE, 200, TRUE, FALSE, 0, 0)]

\* the matches a build can have: none unless the bundler failed
ParsedCounts(env) == IF env = "bundler_failed" THEN 0..MaxParsed ELSE {0}

\* what the fix of one error meets: the handlers behind read_files,
\* update_file and resolve_error, and whether the model patch call raises
FixInputs ==
    [read : HandlerOutcomes, patch : {"returns", "raises"}, update : HandlerOutcomes,
     resolve : HandlerOutcomes]

\* the body of "for idx, error in enumerate(errors[:3], 1)" for one error:
\* the new errors table and whether the model patch call was made
FixOne(error, table, in) ==
    LET file_result == execute_tool("read_files", "object", in.read) IN
    IF file_result.files = <<>>
    THEN [table |-> table, patch_called |-> FALSE]
    ELSE IF in.patch = "raises"
    THEN [table |-> table, patch_called |-> TRUE]
    ELSE LET update_result == execute_tool("update_file", "object", in.update) IN
         IF ~update_result.success
         THEN [table |-> table, patch_called |-> TRUE]
         ELSE LET resolved == execute_tool("resolve_error", "object", in.resolve) IN
              [table |-> IF resolved.success
                         THEN MarkResolved(table, error.id) ELSE table,
               patch_called |-> TRUE]

\* the whole fix loop over a batch: the new table and the patch calls made
RECURSIVE FixLoop(_, _, _, _)
FixLoop(batch, table, ins, k) ==
    IF k > Len(batch) THEN [table |-> table, patch_calls |-> 0]
    ELSE LET one == FixOne(batch[k], table, ins[k])
             rest == FixLoop(batch, one.table, ins, k + 1)
         IN  [table |-> rest.table,
              patch_calls |-> rest.patch_calls + (IF one.patch_called THEN 1 ELSE 0)]

FirstErrors(errors) ==
    SubSeq(errors, 1, IF Len(errors) < ErrorsPerAttempt THEN Len(errors)
                      ELSE ErrorsPerAttempt)

NeverBreaks(errors) == FALSE

\* if not errors: ... break
BreakOnNoErrors(errors) == errors = <<>>

IdleHeal ==
    /\ errors_table = <<>>
    /\ attempt = 0
    /\ heal_pc = "idle"
    /\ builds = 0
    /\ fixes = 0
    /\ attempt_fixes = 0
    /\ checked = FALSE
    /\ seen_errors = 0
    /\ fix_queue = <<>>
    /\ passed = {}
    /\ build_outcome = NoBuild

\* "Starting Auto-Healing Loop": entry of the for loop
HealStart ==
    /\ heal_pc = "idle"
    /\ heal_pc' = "build"
    /\ attempt' = 1
    /\ UNCHANGED <<errors_table, builds, fixes, attempt_fixes, checked, seen_errors,
                   fix_queue, passed, build_outcome, NotHeal>>

\* one attempt from its start to the sleep after the build: a trigger_build
\* result without success ends the loop
HealBuild ==
    /\ heal_pc = "build"
    /\ \E env \in BuildEnv : \E parsed \in ParsedCounts(env) :
          LET built == build_preview(errors_table, env, parsed)
              build_result == execute_tool("trigger_build", "object",
                                           IF built.out.raised THEN "raises" ELSE "returns")
          IN  /\ Len(errors_table) + parsed <= MaxErrors
              /\ errors_table' = built.table
              /\ build_outcome' = [built.out EXCEPT !.by = "heal"]
              /\ heal_pc' = IF ~build_result.success THEN "done" ELSE "check"
    /\ builds' = builds + 1
    /\ attempt_fixes' = 0
    /\ checked' = FALSE
    /\ seen_errors' = 0
    /\ passed' = {}
    /\ UNCHANGED <<attempt, fixes, fix_queue, NotHeal>>

\* the rest of the attempt: get_open_errors, the break on no errors, the fix
\* loop over errors[:3], and the step of the for loop
HealCheck ==
    /\ heal_pc = "check"
    /\ \E outcome \in HandlerOutcomes :
          LET errors_result == execute_tool("get_open_errors", "object", outcome)
              errors == errors_result.errors
              batch == FirstErrors(errors)
          IN  /\ seen_errors' = Len(errors)
              /\ IF BreakOnNoErrors(errors)
                 THEN /\ heal_pc' = "done"
                      /\ UNCHANGED <<errors_table, fixes, attempt_fixes, attempt, passed>>
                 ELSE /\ \E ins \in [1..Len(batch) -> FixInputs] :
                            LET fixed == FixLoop(batch, errors_table, ins, 1) IN
                            /\ errors_table' = fixed.table
                            /\ fixes' = fixes + fixed.patch_calls
                            /\ attempt_fixes' = fixed.patch_calls
                      /\ passed' = {batch[k] : k \in 1..Len(batch)}
                      /\ IF attempt < max_attempts
                         THEN attempt' = attempt + 1 /\ heal_pc' = "build"
                         ELSE heal_pc' = "done" /\ UNCHANGED attempt
    /\ checked' = TRUE
    /\ UNCHANGED <<builds, fix_queue, build_outcome, NotHeal>>

\* POST /preview/build/{project_id}
BuildReq ==
    /\ \E env \in BuildEnv : \E parsed \in ParsedCounts(env) :
          LET built == build_preview(errors_table, env, parsed) IN
          /\ Len(errors_table) + parsed <= MaxErrors
          /\ errors_table' = built.table
          /\ build_outcome' = built.out
    /\ UNCHANGED <<attempt, heal_pc, builds, fixes, attempt_fixes, checked, seen_errors,
                   fix_queue, passed, NotHeal>>

\* POST /errors/report from the preview page
ReportErrorReq ==
    /\ Len(errors_table) < MaxErrors
    /\ errors_table' = InsertError(errors_table, "runtime")
    /\ UNCHANGED <<attempt, heal_pc, builds, fixes, attempt_fixes, checked, seen_errors,
                   fix_queue, passed, build_outcome, NotHeal>>

\* PUT /errors/{error_id}/resolve
ResolveReq(id) ==
    /\ id \in DOMAIN errors_table
    /\ errors_table' = MarkResolved(errors_table, id)
    /\ UNCHANGED <<attempt, heal_pc, builds, fixes, attempt_fixes, checked, seen_errors,
                   fix_queue, passed, build_outcome, NotHeal>>

NextHeal ==
    \/ HealStart
    \/ HealBuild
    \/ HealCheck
    \/ BuildReq
    \/ ReportErrorReq
    \/ \E id \in 1..MaxErrors : ResolveReq(id)

\* ------------------------------------------------------------------------
\* The fix loop on its own, entered with the open errors of a table
\* ------------------------------------------------------------------------
ErrorTypes == {"build", "runtime"}
ErrorStatuses == {"open", "resolved"}

\* the tables of up to MaxErrors rows
Tables ==
    UNION {[1..n -> ErrorTypes \X ErrorStatuses] : n \in 0..MaxErrors}

TableOf(f) == [i \in DOMAIN f |-> ErrorRow(i, f[i][1], f[i][2])]

\* line 382 reached in some attempt with errors = the open rows of the table
FixEntry ==
    /\ \E f \in Tables : errors_table = TableOf(f)
    /\ OpenErrors(errors_table) # <<>>
    /\ fix_queue = FirstErrors(OpenErrors(errors_table))
    /\ attempt \in 1..max_attempts
    /\ heal_pc = "fix"
    /\ builds = attempt
    /\ fixes = 0
    /\ attempt_fixes = 0
    /\ checked = TRUE
    /\ seen_errors = Len(OpenErrors(errors_table))
    /\ passed = {}
    /\ build_outcome = NoBuild

\* one pass of the fix loop
FixStep ==
    /\ heal_pc = "fix"
    /\ fix_queue # <<>>
    /\ \E in \in FixInputs :
          LET one == FixOne(Head(fix_queue), errors_table, in) IN
          /\ errors_table' = one.table
          /\ fixes' = fixes + (IF one.patch_called THEN 1 ELSE 0)
          /\ attempt_fixes' = attempt_fixes + (IF one.patch_called THEN 1 ELSE 0)
    /\ passed' = passed \cup {Head(fix_queue)}
    /\ fix_queue' = Tail(fix_queue)
    /\ UNCHANGED <<attempt, heal_pc, builds, checked, seen_errors, build_outcome, NotHeal>>

\* the fix loop is through: the heal attempt is over
FixEnd ==
    /\ heal_pc = "fix"
    /\ fix_queue = <<>>
    /\ heal_pc' = "attempt_done"
    /\ UNCHANGED <<errors_table, attempt, builds, fixes, attempt_fixes, checked,
                   seen_errors, fix_queue, passed, build_outcome, NotHeal>>

NextFix == FixStep \/ FixEnd

\* ------------------------------------------------------------------------
\* Claims about the auto-healing loop and the build
\* ------------------------------------------------------------------------
\* C4: the auto-healing loop makes at most 3 trigger_build calls and at most
\* 3 model patch calls per attempt, 9 in total, every step of it brings it
\* closer to its end, and it stops at the first attempt in which
\* get_open_errors gives it no errors.
HealMeasure ==
    IF heal_pc = "build" THEN 2 * (max_attempts - attempt) + 2
    ELSE IF heal_pc = "check" THEN 2 * (max_attempts - attempt) + 1
    ELSE 0
HealRunning == heal_pc \in {"build", "check"}
HealProgress == HealMeasure' < HealMeasure \/ UNCHANGED <<attempt, heal_pc>>

C4_HealLoopBounded ==
    /\ [](/\ builds <= max_attempts
          /\ attempt <= max_attempts
          /\ attempt_fixes <= ErrorsPerAttempt
          /\ fixes <= max_attempts * ErrorsPerAttempt
          /\ (checked /\ seen_errors = 0) => heal_pc = "done")
    /\ [](HealRunning => ENABLED (HealBuild \/ HealCheck))
    /\ [][HealRunning => HealProgress]_heal_vars

\* the loop ended in the attempt in which get_open_errors gave it no errors
C4_Witness ==
    /\ heal_pc = "done"
    /\ builds = 1
    /\ checked /\ seen_errors = 0
    /\ build_outcome.by = "heal" /\ ~build_outcome.raised

\* C5: when the build of an attempt fails and leaves open build rows, the same
\* attempt calls get_open_errors and makes a fix for some of them; the failed
\* build does not end the loop.
C5_FailedBuildIsFixed ==
    (/\ heal_pc = "done"
     /\ build_outcome.by = "heal"
     /\ build_outcome.env = "bundler_failed"
     /\ build_outcome.inserted > 0
     /\ \E i \in DOMAIN errors_table :
           errors_table[i].error_type = "build" /\ errors_table[i].status = "open")
        => (checked /\ attempt_fixes >= 1)

\* the loop ended on the failed build of its attempt: the rows the build
\* inserted are open, get_open_errors was not called and no fix was made
C5_Witness ==
    /\ heal_pc = "done"
    /\ build_outcome.by = "heal" /\ build_outcome.env = "bundler_failed"
    /\ build_outcome.inserted > 0
    /\ \E i \in DOMAIN errors_table :
          errors_table[i].error_type = "build" /\ errors_table[i].status = "open"
    /\ ~checked /\ fixes = 0

C7_BuildDoesNotThrow ==
    build_outcome.env = "bundler_failed" =>
        /\ build_outcome.inserted = build_outcome.parsed
        /\ ~build_outcome.raised
        /\ ~build_outcome.success
        /\ build_outcome.logs

\* a build whose bundler failed inserted its rows and then raised
C7_Witness ==
    /\ build_outcome.env = "bundler_failed"
    /\ build_outcome.parsed > 0 /\ build_outcome.inserted = build_outcome.parsed
    /\ build_outcome.raised /\ build_outcome.status = 500

\* the rows of a failed bundler run are inserted, one per parsed error
C7_RowsInserted ==
    [][\A parsed \in 0..MaxParsed :
          (build_outcome'.env = "bundler_failed" /\ build_outcome'.parsed = parsed
              /\ build_outcome' # build_outcome) =>
             (/\ Len(errors_table') = Len(errors_table) + parsed
              /\ \A i \in (Len(errors_table) + 1)..Len(errors_table') :
                    errors_table'[i].error_type = "build"
                        /\ errors_table'[i].status = "open")]_heal_vars

\* the fix loop is never entered with an error: get_open_errors gives none
HealSeesNoErrors == seen_errors = 0 /\ fixes = 0 /\ passed = {}

\* the fix loop entered with errors makes no model patch call and so issues no
\* update_file: read_files gives it no file
FixLoopPatchesNothing == fixes = 0 /\ attempt_fixes = 0

\* ========================================================================
\* AgentContext store (AIContextLoader.update_memory, POST /context/update)
\* ========================================================================
\* the keys of context_data
Fields ==
    {"current_phase", "current_task", "files_generated", "tasks_completed",
     "recent_errors", "ai_memory"}

None == "None"

\* A context_data dict: the keys it has and their values; a key it does not
\* have carries the value that dict.get(key, default) gives in the endpoint.
Data(keys, phase, task, files, tasks, errors, memory) ==
    [keys |-> keys, current_phase |-> phase, current_task |-> task,
     files_generated |-> files, tasks_completed |-> tasks,
     recent_errors |-> errors, ai_memory |-> memory]

Range(s) == {s[i] : i \in 1..Len(s)}

\* list(set(...)): every element once, in an order the hash seed decides
ListOfSet(S) ==
    {s \in [1..Cardinality(S) -> S] : \A e \in S : \E i \in 1..Cardinality(S) : s[i] = e}

\* the slice s[-n:]
LastN(s, n) == IF Len(s) <= n THEN s ELSE SubSeq(s, Len(s) - n + 1, Len(s))

\* {**existing, **new} on dicts held as sets of <<key, value>>
DictUpdate(existing, new) ==
    {kv \in existing : \A nv \in new : nv[1] # kv[1]} \cup new

\* recent_errors of a merge that keeps every error
MergeErrorsUncapped(existing, new) == existing \o new

\* all_errors = existing + new; all_errors[-10:]
merge_recent_errors(existing, new) == LastN(existing \o new, RecentErrorsCap)

\* the agent_context table of the project after the upsert: ON CONFLICT
\* (project_id) keeps it at one row
Upsert(context_data) == <<[context_data |-> context_data]>>

\* what a call leaves: the table and whether the call raised
CtxResult(table, raised) == [table |-> table, raised |-> raised]

\* AIContextLoader.update_memory. x holds the arguments that are not None.
\* as_text: the connection hands a jsonb value back as its text, so the
\* merge of an existing row fails on the first subscript or on .update().
update_memory(table, x, merge, as_text) ==
    IF merge /\ table # <<>>
    THEN IF as_text THEN {CtxResult(table, TRUE)}
         ELSE LET e == table[1].context_data
                  both(f) == f \in x.keys /\ f \in e.keys
                  pick(f) == IF f \in x.keys THEN x[f] ELSE e[f]
                  files == IF both("files_generated")
                           THEN ListOfSet(Range(e.files_generated \o x.files_generated))
                           ELSE {pick("files_generated")}
                  tasks == IF both("tasks_completed")
                           THEN ListOfSet(Range(e.tasks_completed \o x.tasks_completed))
                           ELSE {pick("tasks_completed")}
                  errors == IF both("recent_errors")
                            THEN merge_recent_errors(e.recent_errors, x.recent_errors)
                            ELSE pick("recent_errors")
                  memory == IF both("ai_memory")
                            THEN DictUpdate(e.ai_memory, x.ai_memory)
                            ELSE pick("ai_memory")
              IN  {CtxResult(Upsert(Data(e.keys \cup x.keys, pick("current_phase"),
                                         pick("current_task"), fs, ts, errors, memory)),
                             FALSE) : fs \in files, ts \in tasks}
    ELSE {CtxResult(Upsert(x), FALSE)}

\* ContextData(...).model_dump(): every key, absent ones at their default
model_dump(x) == [x EXCEPT !.keys = Fields]

\* the keys whose value in d is truthy: the ones "if new_data.get(key)" lets
\* a merge set
Truthy(d) ==
    {f \in {"current_phase"} : d.current_phase # None}
        \cup {f \in {"current_task"} : d.current_task # None}
        \cup {f \in {"files_generated"} : d.files_generated # <<>>}
        \cup {f \in {"tasks_completed"} : d.tasks_completed # <<>>}
        \cup {f \in {"recent_errors"} : d.recent_errors # <<>>}
        \cup {f \in {"ai_memory"} : d.ai_memory # {}}

\* POST /context/update. The handler reads and writes context_data as a
\* dict; on a connection that takes jsonb as text the query argument is
\* refused and nothing is stored.
update_context(table, x, merge, as_text) ==
    IF as_text THEN {CtxResult(table, TRUE)}
    ELSE IF table # <<>> /\ merge
    THEN LET e == table[1].context_data
             new_data == model_dump(x)
             files == IF new_data.files_generated # <<>>
                      THEN ListOfSet(Range(e.files_generated) \cup Range(new_data.files_generated))
                      ELSE {e.files_generated}
             tasks == IF new_data.tasks_completed # <<>>
                      THEN ListOfSet(Range(e.tasks_completed) \cup Range(new_data.tasks_completed))
                      ELSE {e.tasks_completed}
             errors == IF new_data.recent_errors # <<>>
                       THEN LastN(e.recent_errors \o new_data.recent_errors, RecentErrorsCap)
                       ELSE e.recent_errors
             phase == IF new_data.current_phase # None THEN new_data.current_phase
                      ELSE e.current_phase
             task == IF new_data.current_task # None THEN new_data.current_task
                     ELSE e.current_task
             memory == IF new_data.ai_memory # {}
                       THEN DictUpdate(e.ai_memory, new_data.ai_memory)
                       ELSE e.ai_memory
             keys == e.keys \cup Truthy(new_data)
         IN  {CtxResult(Upsert(Data(keys, phase, task, fs, ts, errors, memory)), FALSE)
                : fs \in files, ts \in tasks}
    ELSE {CtxResult(Upsert(model_dump(x)), FALSE)}

\* the values the callers pass for the arguments that are not None
PhaseValues == {"code_generation_complete"}
TaskValues == {"debugging"}
FilesValues == {<<"App.tsx">>, <<"api.py", "App.tsx">>}
TasksValues == {<<"t1">>}
ErrorsValues == {<<1>>, [i \in 1..MaxErrorInput |-> i]}
MemoryValues == {{<<"tables", 1>>}, {<<"tables", 2>>}}

\* the context_data update_memory builds from the arguments that are not
\* None (given), and the ContextData a request body carries
Args(given, phase, task, files, tasks, errors, memory) ==
    Data(given,
         IF "current_phase" \in given THEN phase ELSE None,
         IF "current_task" \in given THEN task ELSE None,
         IF "files_generated" \in given THEN files ELSE <<>>,
         IF "tasks_completed" \in given THEN tasks ELSE <<>>,
         IF "recent_errors" \in given THEN errors ELSE <<>>,
         IF "ai_memory" \in given THEN memory ELSE {})

NoArgs == Data({}, None, None, <<>>, <<>>, <<>>, {})

Updates ==
    {Args(given, phase, task, files, tasks, errors, memory) :
        given \in SUBSET Fields,
        phase \in PhaseValues, task \in TaskValues, files \in FilesValues,
        tasks \in TasksValues, errors \in ErrorsValues, memory \in MemoryValues}

NoCtxResp == [op |-> "none", raised |-> FALSE]

IdleContext ==
    /\ agent_context = <<>>
    /\ jsonb_as_text = FALSE
    /\ ctx_resp = NoCtxResp
    /\ ctx_updates = 0
    /\ memory_x = NoArgs
    /\ memory_runs = 0
    /\ memory_once = <<>>

\* no row yet; the connections either decode jsonb or hand it over as text
ContextInitial ==
    /\ agent_context = <<>>
    /\ jsonb_as_text \in BOOLEAN
    /\ ctx_resp = NoCtxResp
    /\ ctx_updates = 0
    /\ memory_x = NoArgs
    /\ memory_runs = 0
    /\ memory_once = <<>>

\* a call of update_memory
UpdateMemoryReq(x, merge) ==
    /\ ctx_updates < MaxUpdates
    /\ \E r \in update_memory(agent_context, x, merge, jsonb_as_text) :
        /\ agent_context' = r.table
        /\ ctx_resp' = [op |-> "update_memory", raised |-> r.raised]
    /\ ctx_updates' = ctx_updates + 1
    /\ UNCHANGED <<jsonb_as_text, memory_x, memory_runs, memory_once, NotContext>>

\* POST /context/update
UpdateContextReq(x, merge) ==
    /\ ctx_updates < MaxUpdates
    /\ \E r \in update_context(agent_context, x, merge, jsonb_as_text) :
        /\ agent_context' = r.table
        /\ ctx_resp' = [op |-> "update_context", raised |-> r.raised]
    /\ ctx_updates' = ctx_updates + 1
    /\ UNCHANGED <<jsonb_as_text, memory_x, memory_runs, memory_once, NotContext>>

\* reset_memory, POST /context/reset: DELETE FROM agent_context
ResetReq ==
    /\ agent_context # <<>>
    /\ agent_context' = <<>>
    /\ ctx_resp' = [op |-> "reset", raised |-> FALSE]
    /\ UNCHANGED <<jsonb_as_text, ctx_updates, memory_x, memory_runs, memory_once,
                   NotContext>>

NextContext ==
    \/ \E x \in Updates, merge \in BOOLEAN : UpdateMemoryReq(x, merge)
    \/ \E x \in Updates, merge \in BOOLEAN : UpdateContextReq(x, merge)
    \/ ResetReq

\* ------------------------------------------------------------------------
\* update_memory(X) applied twice with merge=True
\* ------------------------------------------------------------------------
\* the rows one call can have left, and no row
StoredContexts == {<<>>} \cup {Upsert(x) : x \in Updates}

TwiceEntry ==
    /\ agent_context \in StoredContexts
    /\ jsonb_as_text \in BOOLEAN
    /\ ctx_resp = NoCtxResp
    /\ ctx_updates = 0
    /\ memory_x \in Updates
    /\ memory_runs = 0
    /\ memory_once = <<>>

\* update_memory(memory_x), the first and the second time
UpdateMemoryRun ==
    /\ memory_runs < 2
    /\ \E r \in update_memory(agent_context, memory_x, TRUE, jsonb_as_text) :
        /\ agent_context' = r.table
        /\ ctx_resp' = [op |-> "update_memory", raised |-> r.raised]
        /\ memory_once' = IF memory_runs = 0 THEN r.table ELSE memory_once
    /\ memory_runs' = memory_runs + 1
    /\ UNCHANGED <<jsonb_as_text, ctx_updates, memory_x, NotContext>>

NextTwice == UpdateMemoryRun

\* ------------------------------------------------------------------------
\* Claims about the AgentContext store
\* ------------------------------------------------------------------------
\* C15: in every reachable state the persisted recent_errors has at most 10
\* elements, whatever updates (update_memory, /context/update, merge or
\* replace, with or without a row) came before.
C15_RecentErrorsCapped ==
    \A i \in 1..Len(agent_context) :
        Len(agent_context[i].context_data.recent_errors) <= RecentErrorsCap

\* update_memory has stored a recent_errors list longer than 10
C15_Witness ==
    /\ ctx_resp = [op |-> "update_memory", raised |-> FALSE]
    /\ agent_context # <<>>
    /\ Len(agent_context[1].context_data.recent_errors) > RecentErrorsCap

\* two tables hold the same context_data, the two deduplicated lists taken
\* as sets
SameButErrors(a, b) ==
    /\ Len(a) = Len(b)
    /\ \A i \in 1..Len(a) :
          LET c == a[i].context_data
              d == b[i].context_data
          IN  /\ c.keys = d.keys
              /\ c.current_phase = d.current_phase
              /\ c.current_task = d.current_task
              /\ Range(c.files_generated) = Range(d.files_generated)
              /\ Range(c.tasks_completed) = Range(d.tasks_completed)
              /\ c.ai_memory = d.ai_memory

SameErrors(a, b) ==
    /\ Len(a) = Len(b)
    /\ \A i \in 1..Len(a) :
          a[i].context_data.recent_errors = b[i].context_data.recent_errors

\* C16 as stated: after update_memory(X) twice the persisted context_data is
\* what it was after the first call, the two deduplicated lists as sets.
C16_UpdateMemoryIdempotent ==
    (memory_runs = 2) =>
        (SameButErrors(agent_context, memory_once) /\ SameErrors(agent_context, memory_once))

\* C16: after update_memory(X) twice with merge=True every key of
\* context_data other than recent_errors is what it was after the first call
\* (files_generated and tasks_completed as sets); recent_errors is the same
\* when X has none, and otherwise X's errors are appended once more and the
\* last 10 kept.
C16_IdempotentButErrors ==
    (memory_runs = 2) =>
        /\ SameButErrors(agent_context, memory_once)
        /\ ("recent_errors" \notin memory_x.keys \/ ctx_resp.raised)
              => SameErrors(agent_context, memory_once)
        /\ ("recent_errors" \in memory_x.keys /\ ~ctx_resp.raised)
              => agent_context[1].context_data.recent_errors =
                    LastN(memory_once[1].context_data.recent_errors
                              \o memory_x.recent_errors, RecentErrorsCap)

\* the second call merged lists into the row the first call left: both list
\* unions and the error list changed something on the first call and the
\* second call went through
C16_Witness ==
    /\ memory_runs = 2 /\ ~ctx_resp.raised
    /\ {"files_generated", "recent_errors", "ai_memory"} \subseteq memory_x.keys
    /\ Cardinality(Range(agent_context[1].context_data.files_generated))
          > Cardinality(Range(memory_x.files_generated))
    /\ Len(agent_context[1].context_data.recent_errors) = RecentErrorsCap
    /\ agent_context[1].context_data.recent_errors # memory_once[1].context_data.recent_errors

\* ========================================================================
\* File store (POST /files/create, PUT /files/update, DELETE /files/delete)
\* ========================================================================
\* file paths the requests name; the first lies under frontend/
PathNames == <<"frontend/src/pages/Home.tsx", "backend/app/apis/items/__init__.py",
               "README.md">>
Paths == {PathNames[i] : i \in 1..NumPaths}
FrontendPaths == {PathNames[1]}

Languages == {"python", "typescript", None}
FileTypes == {"api", None}

\* A source text, as far as the validators look at it: the counts of the
\* bracket characters and whether ast.parse accepts it.
Code(text, ob, cb, op, cp, obr, cbr, parses) ==
    [text |-> text, open_braces |-> ob, close_braces |-> cb, open_parens |-> op,
     close_parens |-> cp, open_brackets |-> obr, close_brackets |-> cbr,
     parses |-> parses]

\* a text both validators accept, one with a "{" too many, one with a "("
\* too many
Codes ==
    {Code("ok", 1, 1, 1, 1, 0, 0, TRUE),
     Code("brace", 2, 1, 1, 1, 0, 0, FALSE),
     Code("paren", 1, 1, 2, 1, 0, 0, FALSE)}

ValidationResult(errors) == [is_valid |-> errors = <<>>, errors |-> errors]

\* validate_python_syntax: ast.parse
validate_python_syntax(code) ==
    IF code.parses THEN ValidationResult(<<>>) ELSE ValidationResult(<<"invalid syntax">>)

\* validate_typescript_syntax: the three count comparisons, in this order
validate_typescript_syntax(code) ==
    ValidationResult(
        (IF code.open_braces # code.close_braces THEN <<"Unmatched braces">> ELSE <<>>)
        \o (IF code.open_parens # code.close_parens
            THEN <<"Unmatched parentheses">> ELSE <<>>)
        \o (IF code.open_brackets # code.close_brackets
            THEN <<"Unmatched brackets">> ELSE <<>>))

\* the validator the handlers pick by request.language; none for other
\* languages
Validate(language, code) ==
    IF language = "python" THEN validate_python_syntax(code)
    ELSE IF language = "typescript" THEN validate_typescript_syntax(code)
    ELSE ValidationResult(<<>>)

ValidationDetail(language, errors) ==
    {IF language = "python" THEN "Python syntax validation failed"
     ELSE "TypeScript syntax validation failed"} \cup Range(errors)

\* auto_heal_code: the model answers with some text, or the call raises
HealOutcomes ==
    {[raised |-> TRUE, code |-> Code("ok", 1, 1, 1, 1, 0, 0, TRUE)]}
        \cup {[raised |-> FALSE, code |-> c] : c \in Codes}

\* create_file, validation and auto-healing: the code to store, or the
\* errors of the first validation
ValidateAndHeal(language, code, heal) ==
    LET v == Validate(language, code) IN
    IF v.is_valid
    THEN [ok |-> TRUE, final_code |-> code, errors |-> <<>>, healed |-> "not_needed"]
    ELSE IF ~heal.raised /\ Validate(language, heal.code).is_valid
    THEN [ok |-> TRUE, final_code |-> heal.code, errors |-> <<>>, healed |-> "healed"]
    ELSE [ok |-> FALSE, final_code |-> code, errors |-> v.errors, healed |-> "failed"]

\* rows of project_files
FileRow(path, content, language) ==
    [filepath |-> path, content |-> content, language |-> language]

HasFile(table, path) == \E i \in 1..Len(table) : table[i].filepath = path
GetFile(table, path) == table[CHOOSE i \in 1..Len(table) : table[i].filepath = path]

\* an INSERT into a table without a unique key
InsertUnchecked(table, row) == [table |-> Append(table, row), raised |-> FALSE]

\* INSERT INTO project_files: the table is unique on (project_id, filepath),
\* the key its upsert names in ON CONFLICT; a second row for the key raises
InsertFile(table, row) ==
    IF HasFile(table, row.filepath) THEN [table |-> table, raised |-> TRUE]
    ELSE [table |-> Append(table, row), raised |-> FALSE]

\* an update that inserts the row when the key is missing
UpdateOrInsert(table, path, content, language) ==
    IF HasFile(table, path)
    THEN [table |-> [i \in 1..Len(table) |->
                        IF table[i].filepath = path THEN FileRow(path, content, language)
                        ELSE table[i]],
          count |-> 1]
    ELSE [table |-> Append(table, FileRow(path, content, language)), count |-> 1]

\* UPDATE project_files SET content, language WHERE project_id, filepath
UpdateFile(table, path, content, language) ==
    [table |-> [i \in 1..Len(table) |->
                   IF table[i].filepath = path THEN FileRow(path, content, language)
                   ELSE table[i]],
     count |-> Cardinality({i \in 1..Len(table) : table[i].filepath = path})]

\* what package detection and installation do after the row is written
InstallOutcomes == {"none_detected", "installed", "install_failed", "raises"}

\* whether the handler runs a detection for this language and path
DetectsPackages(language, path) ==
    language = "python" \/ (language = "typescript" /\ path \in FrontendPaths)

\* a handler without the try/except around detection and installation
InstallUncaught(op, install) ==
    IF install = "raises" THEN [status |-> 500, success |-> FALSE]
    ELSE [status |-> 200, success |-> TRUE]

\* the handlers after detection and installation: "except Exception" prints
\* a warning and the success response is returned
AfterInstall(op, install) == [status |-> 200, success |-> TRUE]

FileResp(op, path, status, success, detail, language, content, healed, install) ==
    [op |-> op, path |-> path, status |-> status, success |-> success,
     detail |-> detail, language |-> language, content |-> content,
     healed |-> healed, install |-> install]

NoFileResp ==
    FileResp("none", "", 0, FALSE, {}, None, Code("ok", 1, 1, 1, 1, 0, 0, TRUE),
             "not_needed", "skipped")

\* create_file's outer "except Exception": HTTP 500 whose detail is "File
\* creation failed: " + str(e). For an HTTPException str(e) shows its
\* detail or not, depending on the framework version (shows).
Wrapped(detail, shows) == {"File creation failed"} \cup (IF shows THEN detail ELSE {})

\* the paths of the rows of project_files
StoredPaths(table) == {table[i].filepath : i \in 1..Len(table)}

\* SELECT file_path, file_content FROM generated_files WHERE project_id = $1
\* AND is_active = true
ActiveGenerated(generated) ==
    {generated[i].filepath : i \in {j \in 1..Len(generated) : generated[j].is_active}}

\* paths that start with backend/
BackendPaths == {PathNames[2]}

\* what build_preview loads: the rows, the files it keeps of them (backend
\* files are skipped), and the status the load leads to: 404 without rows,
\* 400 without frontend files, 0 when the build goes on to write the files
\* (stored: the paths project_files held at that moment)
BuildLoad(generated, stored) ==
    LET rows == ActiveGenerated(generated)
        files == rows \ BackendPaths
    IN  [ran |-> TRUE, rows |-> rows, files |-> files,
         status |-> IF rows = {} THEN 404 ELSE IF files = {} THEN 400 ELSE 0,
         stored |-> StoredPaths(stored)]

NoBuildLoad == [ran |-> FALSE, rows |-> {}, files |-> {}, status |-> 0, stored |-> {}]

IdleFiles ==
    /\ project_files = <<>>
    /\ generated_files = <<>>
    /\ file_reqs = <<>>
    /\ file_resp = NoFileResp
    /\ build_loaded = NoBuildLoad

\* no file is stored; generated_files, which no handler inserts into, has no
\* row or one active row
FilesInitial ==
    /\ project_files = <<>>
    /\ generated_files \in {<<>>, <<[filepath |-> PathNames[1], is_active |-> TRUE]>>}
    /\ file_reqs = <<>>
    /\ file_resp = NoFileResp
    /\ build_loaded = NoBuildLoad

\* POST /files/create up to the existence check: validation, auto-healing,
\* workspace creation, SELECT
CreateCheck(path, code, language, file_type, heal, workspace_raises, shows) ==
    LET v == ValidateAndHeal(language, code, heal)
        failed(detail) ==
            /\ file_resp' = FileResp("create", path, 500, FALSE, detail, language, code,
                                     v.healed, "skipped")
            /\ UNCHANGED <<project_files, generated_files, file_reqs, build_loaded, NotFiles>>
    IN  IF ~v.ok THEN failed(Wrapped(ValidationDetail(language, v.errors), shows))
        ELSE IF file_type = "api" /\ language = "python" /\ workspace_raises
        THEN failed({"File creation failed"})
        ELSE IF HasFile(project_files, path)
        THEN failed(Wrapped({"File already exists. Use update endpoint."}, shows))
        ELSE /\ Len(file_reqs) < MaxFileInflight
             /\ file_reqs' = Append(file_reqs,
                    [path |-> path, final_code |-> v.final_code, language |-> language,
                     content |-> code, healed |-> v.healed])
             /\ UNCHANGED <<project_files, generated_files, file_resp, build_loaded, NotFiles>>

\* create_file resumes after the SELECT: the INSERT, then package detection
\* and installation, which touch no table, and the response
CreateInsert(i, install) ==
    /\ install = "skipped" <=> ~DetectsPackages(file_reqs[i].language, file_reqs[i].path)
    /\ LET q == file_reqs[i]
           r == InsertFile(project_files, FileRow(q.path, q.final_code, q.language))
           a == AfterInstall("create", install)
       IN  IF r.raised
           THEN /\ file_resp' = FileResp("create", q.path, 500, FALSE,
                                         {"File creation failed", "duplicate key"},
                                         q.language, q.content, q.healed, "skipped")
                /\ UNCHANGED project_files
           ELSE /\ project_files' = r.table
                /\ file_resp' = FileResp("create", q.path, a.status, a.success,
                                         IF a.success THEN {"File created"}
                                         ELSE {"File creation failed"},
                                         q.language, q.content, q.healed, install)
    /\ file_reqs' = RemoveAt(file_reqs, i)
    /\ UNCHANGED <<generated_files, build_loaded, NotFiles>>

\* PUT /files/update: validation (no healing), the UPDATE, then package
\* detection and installation and the response
UpdateReq(path, code, language, install) ==
    /\ install = "skipped" <=> ~DetectsPackages(language, path)
    /\ LET v == Validate(language, code)
           u == UpdateFile(project_files, path, code, language)
           a == AfterInstall("update", install)
           failed(status, detail) ==
               /\ file_resp' = FileResp("update", path, status, FALSE, detail, language,
                                        code, "not_needed", "skipped")
               /\ UNCHANGED project_files
       IN  IF ~v.is_valid THEN failed(400, ValidationDetail(language, v.errors))
           ELSE IF u.count = 0 THEN failed(404, {"File not found"})
           ELSE /\ project_files' = u.table
                /\ file_resp' = FileResp("update", path, a.status, a.success,
                                         IF a.success THEN {"File updated"}
                                         ELSE {"Internal Server Error"},
                                         language, code, "not_needed", install)
    /\ UNCHANGED <<generated_files, file_reqs, build_loaded, NotFiles>>

\* DELETE /files/delete: flips is_active in generated_files; project_files
\* is not touched
DeleteFile(path) ==
    /\ IF \E i \in 1..Len(generated_files) :
              generated_files[i].filepath = path /\ generated_files[i].is_active
       THEN /\ generated_files' =
                  [i \in 1..Len(generated_files) |->
                      IF generated_files[i].filepath = path
                      THEN [generated_files[i] EXCEPT !.is_active = FALSE]
                      ELSE generated_files[i]]
            /\ file_resp' = FileResp("delete", path, 200, TRUE, {"File deleted"}, None,
                                     NoFileResp.content, "not_needed", "skipped")
       ELSE /\ file_resp' = FileResp("delete", path, 404, FALSE, {"File not found"}, None,
                                     NoFileResp.content, "not_needed", "skipped")
            /\ UNCHANGED generated_files
    /\ UNCHANGED <<project_files, file_reqs, build_loaded, NotFiles>>

\* POST /preview/build/{project_id} up to the writing of the files
BuildFiles ==
    /\ build_loaded' = BuildLoad(generated_files, project_files)
    /\ build_loaded' # build_loaded
    /\ file_resp' = FileResp("build", "", build_loaded'.status, FALSE, {}, None,
                             NoFileResp.content, "not_needed", "skipped")
    /\ UNCHANGED <<project_files, generated_files, file_reqs, NotFiles>>

NextFiles ==
    \/ \E path \in Paths, code \in Codes, language \in Languages, file_type \in FileTypes,
          heal \in HealOutcomes, workspace_raises \in BOOLEAN, shows \in BOOLEAN :
            CreateCheck(path, code, language, file_type, heal, workspace_raises, shows)
    \/ \E i \in 1..Len(file_reqs), install \in InstallOutcomes \cup {"skipped"} :
            CreateInsert(i, install)
    \/ \E path \in Paths, code \in Codes, language \in Languages,
          install \in InstallOutcomes \cup {"skipped"} :
            UpdateReq(path, code, language, install)
    \/ \E path \in Paths : DeleteFile(path)
    \/ BuildFiles

CompletesCreate ==
    /\ file_resp'.op = "create"
    /\ file_reqs' = file_reqs \/ Len(file_reqs') < Len(file_reqs)

\* a step that completes an update_file request
CompletesUpdate ==
    /\ file_resp'.op = "update"
    /\ file_reqs' = file_reqs

C18_CreateRefused ==
    /\ file_resp.op = "create" /\ file_resp.status >= 400
    /\ file_resp.healed # "failed" /\ "duplicate key" \notin file_resp.detail
    /\ HasFile(project_files, file_resp.path)

\* the create_file that was answered last had typescript content with
\* unmatched braces that auto-healing did not repair
BrokenTypescript ==
    /\ file_resp.op = "create" /\ file_resp.language = "typescript"
    /\ file_resp.content.open_braces # file_resp.content.close_braces
    /\ file_resp.healed = "failed"

\* C19: such a create_file is answered with HTTP 400 and a detail that names
\* "Unmatched braces".
C19_BrokenTypescriptIs400 ==
    BrokenTypescript =>
        (file_resp.status = 400 /\ "Unmatched braces" \in file_resp.detail)

\* it was answered with HTTP 500, and with a detail that does not name the
\* braces
C19_Witness ==
    /\ BrokenTypescript /\ file_resp.status = 500
    /\ "Unmatched braces" \notin file_resp.detail

\* the part of C19 that holds: the request is answered with an error and
\* stores nothing
C19_BrokenTypescriptNotStored ==
    [][(CompletesCreate /\ BrokenTypescript')
          => (/\ project_files' = project_files /\ file_reqs' = file_reqs
              /\ file_resp'.status >= 400 /\ ~file_resp'.success)]_vars

\* C20: whatever package detection and installation do after create_file or
\* update_file has written its row (nothing found, installed, a failure
\* returned, an exception raised), the call returns success and the row is
\* stored with the submitted code, or with the healed code of create_file.
C20_InstallNeverAborts ==
    [][/\ \A i \in 1..Len(file_reqs) :
            (/\ file_reqs' = RemoveAt(file_reqs, i)
             /\ ~HasFile(project_files, file_reqs[i].path))
            => (/\ file_resp'.op = "create"
                /\ file_resp'.status = 200 /\ file_resp'.success
                /\ file_resp'.install \in InstallOutcomes \cup {"skipped"}
                /\ HasFile(project_files', file_reqs[i].path)
                /\ GetFile(project_files', file_reqs[i].path).content
                      = file_reqs[i].final_code
                /\ file_reqs[i].final_code
                      \in {file_reqs[i].content} \cup {h.code : h \in HealOutcomes})
       /\ (/\ CompletesUpdate
           /\ HasFile(project_files, file_resp'.path)
           /\ Validate(file_resp'.language, file_resp'.content).is_valid)
            => (/\ file_resp'.status = 200 /\ file_resp'.success
                /\ file_resp'.install \in InstallOutcomes \cup {"skipped"}
                /\ GetFile(project_files', file_resp'.path).content
                      = file_resp'.content)]_vars

\* a create_file whose code was healed returned success although the
\* installation raised, and the row holds the healed code
C20_Witness ==
    /\ file_resp.op = "create" /\ file_resp.success /\ file_resp.status = 200
    /\ file_resp.install = "raises" /\ file_resp.healed = "healed"
    /\ HasFile(project_files, file_resp.path)
    /\ GetFile(project_files, file_resp.path).content # file_resp.content

\* ========================================================================
\* Package harvest of create_file and update_file for python files
\* ========================================================================
\* top-level modules the submitted files import
ImportNames == {"os", "json", "fastapi", "sklearn", "yaml", "mylib"}

\* sys.stdlib_module_names and code_validator._STANDARD_LIBRARY_MODULES (the
\* standard library plus fastapi, pydantic, uvicorn, starlette), as far as
\* they name a module of ImportNames
stdlib_module_names == {"os", "json"}
STANDARD_LIBRARY_MODULES == {"os", "json", "fastapi"}

\* code_validator.PYTHON_IMPORT_TO_PACKAGE
PYTHON_IMPORT_TO_PACKAGE ==
    [requests |-> "requests", numpy |-> "numpy", pandas |-> "pandas",
     sklearn |-> "scikit-learn", PIL |-> "Pillow", cv2 |-> "opencv-python",
     bs4 |-> "beautifulsoup4", yaml |-> "pyyaml", dotenv |-> "python-dotenv",
     jwt |-> "pyjwt", openai |-> "openai", anthropic |-> "anthropic",
     stripe |-> "stripe", httpx |-> "httpx", asyncpg |-> "asyncpg",
     sqlalchemy |-> "sqlalchemy", redis |-> "redis", celery |-> "celery",
     scrapy |-> "scrapy"]

\* the IMPORT_TO_PACKAGE table local to preview.detect_python_imports
IMPORT_TO_PACKAGE ==
    [PIL |-> "Pillow", cv2 |-> "opencv-python", yaml |-> "PyYAML",
     sklearn |-> "scikit-learn", bs4 |-> "beautifulsoup4", dotenv |-> "python-dotenv",
     discord |-> "discord.py", telegram |-> "python-telegram-bot",
     jose |-> "python-jose", multipart |-> "python-multipart",
     magic |-> "python-magic"]

\* dict.get(key, key)
GetOrSelf(table, key) == IF key \in DOMAIN table THEN table[key] ELSE key

\* a python text, as far as the harvest looks at it: whether ast.parse
\* accepts it and the top-level modules its import statements name
PyCode(parses, imports) == [parses |-> parses, imports |-> imports]

\* ValidationResult.imports of validate_python_syntax: the base modules of
\* the import statements, [] for a text that does not parse
ValidationImports(code) == IF code.parses THEN code.imports ELSE {}

\* preview.detect_python_imports
detect_python_imports(code) ==
    LET packages == IF code.parses THEN code.imports ELSE {}
        third_party == packages \ stdlib_module_names
    IN  {GetOrSelf(IMPORT_TO_PACKAGE, pkg) : pkg \in third_party}

\* packages_to_install of create_file and update_file: the validated
\* imports mapped through the table when there are any, else the fallback
\* detection on the submitted text
packages_to_install(imports, file_content) ==
    IF imports # {}
    THEN {GetOrSelf(PYTHON_IMPORT_TO_PACKAGE, imp) : imp \in imports}
    ELSE detect_python_imports(file_content)

\* what auto_heal_code gives create_file for a text that does not parse
PyHealOutcomes ==
    {[raised |-> TRUE, code |-> PyCode(FALSE, {})],
     [raised |-> FALSE, code |-> PyCode(FALSE, {})],
     [raised |-> FALSE, code |-> PyCode(TRUE, {})],
     [raised |-> FALSE, code |-> PyCode(TRUE, {"os", "sklearn"})]}

NoHarvest == [op |-> "none", stored |-> FALSE, imports |-> {}, installer_called |-> FALSE,
              packages |-> {}]

IdlePackages ==
    /\ py_request = [op |-> "create", file_content |-> PyCode(TRUE, {})]
    /\ harvest = NoHarvest

\* a create_file or update_file request with language "python" for a path
\* it can write
PackagesInitial ==
    /\ py_request \in [op : {"create", "update"},
                       file_content : {PyCode(parses, imports) :
                                          parses \in BOOLEAN, imports \in SUBSET ImportNames}]
    /\ harvest = NoHarvest

\* the handler from validation to the call of install_packages_in_project
HarvestReq(heal) ==
    LET code == py_request.file_content
        healed == py_request.op = "create" /\ ~code.parses /\ ~heal.raised
                  /\ heal.code.parses
        stored == code.parses \/ healed
        imports == IF healed THEN ValidationImports(heal.code) ELSE ValidationImports(code)
        packages == packages_to_install(imports, code)
    IN  /\ harvest.op = "none"
        /\ harvest' = [op |-> py_request.op, stored |-> stored,
                       imports |-> IF stored THEN imports ELSE {},
                       installer_called |-> stored /\ packages # {},
                       packages |-> IF stored THEN packages ELSE {}]
        /\ UNCHANGED <<py_request, NotPackages>>

NextPackages == \E heal \in PyHealOutcomes : HarvestReq(heal)

\* ------------------------------------------------------------------------
\* Claims about the package harvest
\* ------------------------------------------------------------------------
\* the imported modules that are neither standard library nor provided by
\* the framework, mapped through the table
ExpectedPackages(imports) ==
    {GetOrSelf(PYTHON_IMPORT_TO_PACKAGE, imp) : imp \in imports \ STANDARD_LIBRARY_MODULES}

\* C21: the set of packages handed to the installer when a python file is
\* created or updated is the file's imported top-level modules without the
\* standard-library and framework-provided ones, mapped through the table;
\* it contains no standard-library module name.
C21_HarvestFiltersStdlib ==
    harvest.installer_called =>
        /\ harvest.packages = ExpectedPackages(harvest.imports)
        /\ harvest.packages \cap stdlib_module_names = {}

\* the installer was handed "os" for a stored file that imports os and
\* sklearn
C21_Witness ==
    /\ harvest.stored /\ harvest.installer_called
    /\ harvest.imports = {"os", "sklearn"}
    /\ harvest.packages = {"os", "scikit-learn"}

\* the part of C21 that holds: every module is mapped through the table,
\* and nothing but the file's imports is handed over
C21_HarvestMapsImports ==
    harvest.installer_called =>
        harvest.packages = {GetOrSelf(PYTHON_IMPORT_TO_PACKAGE, imp) : imp \in harvest.imports}

\* ========================================================================
\* Backend workspace of a project (preview.create_backend_workspace)
\* ========================================================================
\* files of <WORKSPACE_BASE>/<project_id>/backend: the scaffolding the
\* function writes, one generated API module and the virtual environment
Manifest == "pyproject.toml"
EntryFile == "main.py"
AppInit == "app/__init__.py"
ApisInit == "app/apis/__init__.py"
GeneratedModule == "app/apis/items/__init__.py"
Venv == ".venv"
Scaffolding == {Manifest, EntryFile, AppInit, ApisInit}
WorkspaceFiles == Scaffolding \cup {GeneratedModule, Venv}

\* file contents: a file that does not exist, and the texts the function
\* writes
Absent == "<absent>"
pyproject_content == "[project] name = user-project ... app = []"
main_py_content == "from fastapi import FastAPI ... app = create_app()"
Template(f) ==
    IF f = Manifest THEN pyproject_content
    ELSE IF f = EntryFile THEN main_py_content
    ELSE ""

\* what the project's tools and its user leave in a file of the workspace
EditedContents(f) ==
    IF f = Manifest THEN {"[project] ... app = [\"pandas\"]"}
    ELSE IF f = EntryFile THEN {"from fastapi import FastAPI ... # edited"}
    ELSE IF f = GeneratedModule THEN {"router = APIRouter() ..."}
    ELSE IF f = Venv THEN {}
    ELSE {"# edited"}

\* a create that writes only the files that are missing
CreateMissingOnly(ws) ==
    [f \in WorkspaceFiles |->
        IF f \in Scaffolding /\ ws[f] = Absent THEN Template(f) ELSE ws[f]]

\* create_backend_workspace, the filesystem after the call: the two mkdir
\* calls keep what exists, the four write_text calls replace the file
create_backend_workspace(ws) ==
    [f \in WorkspaceFiles |-> IF f \in Scaffolding THEN Template(f) ELSE ws[f]]

NoWorkspace == [f \in WorkspaceFiles |-> Absent]

IdleWorkspace ==
    /\ workspace = NoWorkspace
    /\ ws_before = NoWorkspace
    /\ ws_creates = 0
    /\ ws_op = "none"
    /\ venv_tasks = 0

\* POST /preview/backend/create/{project_id}, and the other callers of
\* create_backend_workspace; a venv task is started when .venv is missing
CreateWorkspace ==
    /\ ws_creates < MaxCreates
    /\ workspace' = create_backend_workspace(workspace)
    /\ ws_before' = workspace
    /\ ws_creates' = ws_creates + 1
    /\ ws_op' = "create"
    /\ venv_tasks' = IF workspace[Venv] = Absent THEN venv_tasks + 1 ELSE venv_tasks
    /\ UNCHANGED NotWorkspace

\* _create_venv_background: the venv is created, or the task fails and
\* prints the failure
VenvTask(ok) ==
    /\ venv_tasks > 0
    /\ venv_tasks' = venv_tasks - 1
    /\ workspace' = IF ok THEN [workspace EXCEPT ![Venv] = "venv"] ELSE workspace
    /\ ws_op' = "venv"
    /\ UNCHANGED <<ws_before, ws_creates, NotWorkspace>>

\* the generated project and its user write a file of an existing
\* workspace: a generated module is added, a dependency is added to the
\* manifest, the entry file is edited
WriteWorkspaceFile(f, content) ==
    /\ ws_creates > 0
    /\ workspace[f] # content
    /\ workspace' = [workspace EXCEPT ![f] = content]
    /\ ws_op' = "write"
    /\ UNCHANGED <<ws_before, ws_creates, venv_tasks, NotWorkspace>>

NextWorkspace ==
    \/ CreateWorkspace
    \/ \E ok \in BOOLEAN : VenvTask(ok)
    \/ \E f \in WorkspaceFiles : \E content \in EditedContents(f) :
          WriteWorkspaceFile(f, content)

\* ------------------------------------------------------------------------
\* Claims about the backend workspace
\* ------------------------------------------------------------------------
\* C22: a second create_backend_workspace for a project, run after files
\* were generated and the manifest was changed, leaves every file that
\* exists with the content it had and writes only the missing ones.
C22_CreateIdempotent ==
    [][ws_creates' > ws_creates
          => workspace' = CreateMissingOnly(workspace)]_vars

\* the second create found a generated module and a manifest with an added
\* dependency; it kept the module and put the template back in the manifest
C22_Witness ==
    /\ ws_op = "create" /\ ws_creates = 2
    /\ ws_before[GeneratedModule] # Absent
    /\ workspace[GeneratedModule] = ws_before[GeneratedModule]
    /\ ws_before[Manifest] \in EditedContents(Manifest)
    /\ workspace[Manifest] = pyproject_content

\* the part of C22 that holds: a create leaves generated modules and the
\* virtual environment as they are, and all the scaffolding exists after it
C22_CreateKeepsGenerated ==
    [][ws_creates' > ws_creates
          => /\ \A f \in WorkspaceFiles \ Scaffolding : workspace'[f] = workspace[f]
             /\ \A f \in Scaffolding : workspace'[f] # Absent]_vars

\* ========================================================================
\* feature_request branch (AIOrchestrator.generate_with_planning and
\* _generate_code_from_plan), one message on a project without files
\* ========================================================================
\* endpoints of ApiSpecs, as the segments between the slashes, and names of
\* PageSpecs
Endpoints == {<<"api", "todos">>, <<"api", "users", "todos">>, <<>>}
Methods == {"GET", "POST"}
ApiSpecs == [endpoint : Endpoints, method : Methods]
PageNames == {"Home", "Todos"}

SeqsUpTo(S, n) == UNION {[1..k -> S] : k \in 0..n}

\* the plans the planner returns
Plans ==
    [tasks : 0..MaxPlanTasks, database_schema : 0..1,
     apis : SeqsUpTo(ApiSpecs, MaxApis), pages : SeqsUpTo(PageNames, MaxPages)]

\* api_name = endpoint.strip('/').split('/')[-1], 'unnamed_api' when empty
ApiName(endpoint) ==
    IF endpoint = <<>> THEN "unnamed_api" ELSE endpoint[Len(endpoint)]

\* f'backend/app/apis/{api_name}/__init__.py'
ApiPath(api) == <<"backend/app/apis", ApiName(api.endpoint), "__init__.py">>

\* f'frontend/src/pages/{page_name}.tsx'
PagePath(page_name) == <<"frontend/src/pages", page_name, ".tsx">>

\* execute_tool('create_file', ...): the handler's validation and healing
\* (valid), its existence check and its INSERT; an HTTPException of the
\* handler comes back as success False
CreateFileTool(table, path, language, valid) ==
    IF ~valid THEN [table |-> table, path |-> path, success |-> FALSE,
                    error |-> "validation failed"]
    ELSE IF HasFile(table, path)
    THEN [table |-> table, path |-> path, success |-> FALSE,
          error |-> "File already exists. Use update endpoint."]
    ELSE [table |-> InsertFile(table, FileRow(path, "generated", language)).table,
          path |-> path, success |-> TRUE, error |-> "none"]

\* a branch that updates AgentContext before the auto-healing loop
StagesUpdateBeforeHeal ==
    <<"tasks", "migration", "apis", "pages", "harvest", "update", "heal">>

\* the steps of the branch in program order, and how often each runs
Stages == <<"tasks", "migration", "apis", "pages", "harvest", "heal", "update">>
StageIndex(stage) == CHOOSE k \in 1..Len(Stages) : Stages[k] = stage
StageCount(p, stage) ==
    IF stage = "tasks" THEN p.tasks
    ELSE IF stage = "migration" THEN p.database_schema
    ELSE IF stage = "apis" THEN Len(p.apis)
    ELSE IF stage = "pages" THEN Len(p.pages)
    ELSE 1

\* the position after iteration i of a stage: its next iteration, or the
\* first iteration of the next stage that has one
RECURSIVE FirstFrom(_, _)
FirstFrom(p, k) ==
    IF k > Len(Stages) THEN [stage |-> "done", i |-> 0]
    ELSE IF StageCount(p, Stages[k]) > 0 THEN [stage |-> Stages[k], i |-> 1]
    ELSE FirstFrom(p, k + 1)

After(p, stage, i) ==
    IF i < StageCount(p, stage) THEN [stage |-> stage, i |-> i + 1]
    ELSE FirstFrom(p, StageIndex(stage) + 1)

\* ids create_task gives the tasks of this plan, and one of an earlier plan
NewTaskIds == <<"task-1", "task-2", "task-3">>
OldTaskId == "task-0"

\* what AgentContext holds when the message arrives: no row, or the row an
\* earlier message left
EarlierContexts ==
    {<<>>,
     Upsert(Data({"current_phase", "tasks_completed"}, "planning", None, <<>>,
                 <<OldTaskId>>, <<>>, {}))}

\* how the context load at the start of the call ends: it succeeds,
\* load_context raises on the opened loader, or opening the loader raises
LoadOutcomes == {"ok", "load_failed", "open_failed"}

IdlePlan ==
    /\ plan = [tasks |-> 0, database_schema |-> 0, apis |-> <<>>, pages |-> <<>>]
    /\ plan_pc = [stage |-> "start", i |-> 0]
    /\ plan_events = <<>>
    /\ plan_files = <<>>
    /\ plan_results = <<>>
    /\ task_ids = <<>>
    /\ loader = "none"
    /\ plan_context = <<>>
    /\ plan_as_text = FALSE
    /\ env_ok = TRUE

PlanInitial ==
    /\ plan \in Plans
    /\ plan_pc = [stage |-> "start", i |-> 0]
    /\ plan_events = <<>>
    /\ plan_files = <<>>
    /\ plan_results = <<>>
    /\ task_ids = <<>>
    /\ loader = "none"
    /\ plan_context \in EarlierContexts
    /\ plan_as_text \in BOOLEAN
    /\ env_ok = TRUE

PlanMove(stage, i) == plan_pc' = After(plan, stage, i)

\* the context load, analyze_intent giving feature_request,
\* create_project_plan, and the plan summary
PlanStart(load) ==
    /\ plan_pc.stage = "start"
    /\ loader' = IF load = "open_failed" THEN "broken" ELSE "open"
    /\ plan_events' = <<"plan_summary">>
    /\ plan_pc' = FirstFrom(plan, 1)
    /\ env_ok' = (load = "ok")
    /\ UNCHANGED <<plan, plan_files, plan_results, task_ids, plan_context, plan_as_text,
                   NotPlan>>

\* one iteration of "for task_data in tasks"
CreateTaskStep(ok) ==
    /\ plan_pc.stage = "tasks"
    /\ plan_events' = Append(plan_events, "create_task")
    /\ task_ids' = IF ok THEN Append(task_ids, NewTaskIds[plan_pc.i]) ELSE task_ids
    /\ env_ok' = (env_ok /\ ok)
    /\ PlanMove("tasks", plan_pc.i)
    /\ UNCHANGED <<plan, plan_files, plan_results, loader, plan_context, plan_as_text,
                   NotPlan>>

\* "if schema:" execute_tool('run_migration', ...)
MigrationStep(ok) ==
    /\ plan_pc.stage = "migration"
    /\ plan_events' = Append(plan_events, "run_migration")
    /\ env_ok' = (env_ok /\ ok)
    /\ PlanMove("migration", plan_pc.i)
    /\ UNCHANGED <<plan, plan_files, plan_results, task_ids, loader, plan_context,
                   plan_as_text, NotPlan>>

CreateFileEvent(language) ==
    IF language = "python" THEN "create_file:python" ELSE "create_file:typescript"

\* one iteration of "for api in apis" or "for page in pages": the model
\* call, and create_file when the call returned
GenerateFile(stage, path, language, model_ok, valid) ==
    LET r == CreateFileTool(plan_files, path, language, valid) IN
    /\ plan_pc.stage = stage
    /\ IF model_ok
       THEN /\ plan_events' = Append(plan_events, CreateFileEvent(language))
            /\ plan_files' = r.table
            /\ plan_results' = Append(plan_results,
                                      [path |-> r.path, success |-> r.success,
                                       error |-> r.error])
       ELSE UNCHANGED <<plan_events, plan_files, plan_results>>
    /\ env_ok' = (env_ok /\ model_ok /\ valid)
    /\ PlanMove(stage, plan_pc.i)
    /\ UNCHANGED <<plan, task_ids, loader, plan_context, plan_as_text, NotPlan>>

ApiStep(model_ok, valid) ==
    /\ plan_pc.stage = "apis"
    /\ GenerateFile("apis", ApiPath(plan.apis[plan_pc.i]), "python", model_ok, valid)

PageStep(model_ok, valid) ==
    /\ plan_pc.stage = "pages"
    /\ GenerateFile("pages", PagePath(plan.pages[plan_pc.i]), "typescript", model_ok, valid)

\* the package harvest and the auto-healing loop, each inside its try
HarvestStep ==
    /\ plan_pc.stage = "harvest"
    /\ plan_events' = Append(plan_events, "package_harvest")
    /\ PlanMove("harvest", plan_pc.i)
    /\ UNCHANGED <<plan, plan_files, plan_results, task_ids, loader, plan_context,
                   plan_as_text, env_ok, NotPlan>>

HealStep ==
    /\ plan_pc.stage = "heal"
    /\ plan_events' = Append(plan_events, "auto_healing")
    /\ PlanMove("heal", plan_pc.i)
    /\ UNCHANGED <<plan, plan_files, plan_results, task_ids, loader, plan_context,
                   plan_as_text, env_ok, NotPlan>>

\* the arguments of the update_memory call that ends the branch
PlanUpdate ==
    Data({"current_phase", "current_task", "tasks_completed", "ai_memory"},
         "code_generation_complete", "feature_request", <<>>, task_ids, <<>>,
         {<<"plan_type", "full_feature">>, <<"tables_created", plan.database_schema>>,
          <<"apis_created", Len(plan.apis)>>, <<"pages_created", Len(plan.pages)>>})

\* "if self.context_loader:" update_memory(...): the attribute was set
\* before the loader was opened, so the call is made on a loader that failed
\* to open too, and raises there; no try surrounds the call
UpdateStep ==
    /\ plan_pc.stage = "update"
    /\ \E r \in (IF loader = "broken" THEN {CtxResult(plan_context, TRUE)}
                 ELSE update_memory(plan_context, PlanUpdate, TRUE, plan_as_text)) :
        /\ plan_context' = r.table
        /\ plan_events' = Append(plan_events,
                                 IF r.raised THEN "update_raised" ELSE "context_updated")
        /\ plan_pc' = [stage |-> IF r.raised THEN "raised" ELSE "done", i |-> 0]
    /\ UNCHANGED <<plan, plan_files, plan_results, task_ids, loader, plan_as_text,
                   env_ok, NotPlan>>

NextPlan ==
    \/ \E load \in LoadOutcomes : PlanStart(load)
    \/ \E ok \in BOOLEAN : CreateTaskStep(ok)
    \/ \E ok \in BOOLEAN : MigrationStep(ok)
    \/ \E model_ok \in BOOLEAN, valid \in BOOLEAN : ApiStep(model_ok, valid)
    \/ \E model_ok \in BOOLEAN, valid \in BOOLEAN : PageStep(model_ok, valid)
    \/ HarvestStep
    \/ HealStep
    \/ UpdateStep

\* ------------------------------------------------------------------------
\* Claims about the feature_request branch
\* ------------------------------------------------------------------------
FilesWritten == plan_pc.stage \in {"harvest", "heal", "update", "done", "raised"}
RowsOf(language) == {i \in 1..Len(plan_files) : plan_files[i].language = language}

\* C23: when every model call and every tool handler succeeded, a plan with
\* n ApiSpecs and m PageSpecs has left n python files, one at the path of
\* each ApiSpec, and m typescript files, and no create_file was refused
\* because the file exists.
C23_OneFilePerSpec ==
    (FilesWritten /\ env_ok) =>
        /\ Cardinality(RowsOf("python")) = Len(plan.apis)
        /\ \A k \in 1..Len(plan.apis) : HasFile(plan_files, ApiPath(plan.apis[k]))
        /\ Cardinality(RowsOf("typescript")) = Len(plan.pages)
        /\ \A k \in 1..Len(plan_results) : plan_results[k].success

\* a plan with GET and POST on one endpoint left one python file, and the
\* second create_file was refused as already existing
C23_Witness ==
    /\ FilesWritten /\ env_ok
    /\ Len(plan.apis) = 2
    /\ plan.apis[1].endpoint = plan.apis[2].endpoint
    /\ plan.apis[1].method # plan.apis[2].method
    /\ Cardinality(RowsOf("python")) = 1
    /\ \E k \in 1..Len(plan_results) :
          /\ ~plan_results[k].success
          /\ plan_results[k].error = "File already exists. Use update endpoint."

\* the part of C23 that holds: plans whose ApiSpecs end in different
\* segments and whose pages have different names get one file per spec
DistinctNames ==
    /\ \A j, k \in 1..Len(plan.apis) :
          ApiName(plan.apis[j].endpoint) = ApiName(plan.apis[k].endpoint) => j = k
    /\ \A j, k \in 1..Len(plan.pages) : plan.pages[j] = plan.pages[k] => j = k

C23_DistinctNamesOneFileEach ==
    (FilesWritten /\ env_ok /\ DistinctNames) =>
        /\ Cardinality(RowsOf("python")) = Len(plan.apis)
        /\ Cardinality(RowsOf("typescript")) = Len(plan.pages)
        /\ \A k \in 1..Len(plan_results) : plan_results[k].success

\* the place of each step in the order the claim gives
Rank(event) ==
    IF event = "plan_summary" THEN 1
    ELSE IF event = "create_task" THEN 2
    ELSE IF event = "run_migration" THEN 3
    ELSE IF event = "create_file:python" THEN 4
    ELSE IF event = "create_file:typescript" THEN 5
    ELSE IF event = "package_harvest" THEN 6
    ELSE IF event = "auto_healing" THEN 7
    ELSE 8

CountOf(event) == Cardinality({k \in 1..Len(plan_events) : plan_events[k] = event})

\* C24: the steps of the feature_request branch for one message happen in
\* this order: plan summary, one create_task per PlanTask, run_migration,
\* create_file for the ApiSpecs, create_file for the PageSpecs, package
\* harvest, auto-healing loop, and last the AgentContext update; after the
\* update current_phase is code_generation_complete and tasks_completed
\* contains the ids of the tasks just created.
C24_StepsInOrder ==
    /\ \A j, k \in 1..Len(plan_events) :
          j < k => Rank(plan_events[j]) <= Rank(plan_events[k])
    /\ plan_events # <<>> => plan_events[1] = "plan_summary"
    /\ CountOf("plan_summary") <= 1 /\ CountOf("run_migration") <= 1
    /\ CountOf("package_harvest") <= 1 /\ CountOf("auto_healing") <= 1
    /\ CountOf("context_updated") + CountOf("update_raised") <= 1
    /\ plan_pc.stage \notin {"start", "tasks"} => CountOf("create_task") = plan.tasks
    /\ plan_pc.stage \in {"update", "done", "raised"} =>
          /\ CountOf("run_migration") = plan.database_schema
          /\ CountOf("create_file:python") <= Len(plan.apis)
          /\ CountOf("create_file:typescript") <= Len(plan.pages)
          /\ env_ok => /\ CountOf("create_file:python") = Len(plan.apis)
                       /\ CountOf("create_file:typescript") = Len(plan.pages)
          /\ CountOf("package_harvest") = 1 /\ CountOf("auto_healing") = 1
    /\ plan_pc.stage = "done" =>
          /\ plan_events[Len(plan_events)] = "context_updated"
          /\ Len(plan_context) = 1
          /\ plan_context[1].context_data.current_phase = "code_generation_complete"
          /\ Range(task_ids) \subseteq Range(plan_context[1].context_data.tasks_completed)

\* a message whose plan had two tasks, a table, two APIs and a page ran to
\* its end on a project with an earlier AgentContext row: the row has the
\* new phase, the earlier task and the two new ones
C24_Witness ==
    /\ plan_pc.stage = "done" /\ env_ok
    /\ plan_events = <<"plan_summary", "create_task", "create_task", "run_migration",
                       "create_file:python", "create_file:python",
                       "create_file:typescript", "package_harvest", "auto_healing",
                       "context_updated">>
    /\ plan_context[1].context_data.current_phase = "code_generation_complete"
    /\ Range(plan_context[1].context_data.tasks_completed)
          = {OldTaskId, NewTaskIds[1], NewTaskIds[2]}

\* the branch can also end in the exception of update_memory, after the
\* auto-healing loop and with AgentContext as it was
C24_UpdateCanRaise ==
    plan_pc.stage = "raised" =>
        /\ plan_events[Len(plan_events)] = "update_raised"
        /\ plan_context \in EarlierContexts
        /\ (loader = "broken" \/ (plan_as_text /\ plan_context # <<>>))

\* ========================================================================
\* Snapshot cache of one orchestrator instance (generate_with_planning,
\* _stream_with_tools, recover_from_error), calls one after the other
\* ========================================================================
\* self._cached_context: None, or the snapshot of the project state with
\* this number
NoSnapshot == 0

Intents == {"feature_request", "debug", "question", "chat"}

\* a call that loads on every generate_with_planning
LoadsEveryCall(loaded) == TRUE

\* "if not self._context_loaded:"
NeedsLoad(loaded) == ~loaded

\* the snapshot _stream_with_tools puts before the system prompt: "if
\* self._cached_context:" format_for_prompt(self._cached_context)
PromptSnapshot(cached) == cached

IdleSession ==
    /\ context_loaded = FALSE
    /\ cached_context = NoSnapshot
    /\ project_state = 1
    /\ loads = 0
    /\ session_calls = 0
    /\ session_pc = "idle"
    /\ last_prompt = [built |-> FALSE, snapshot |-> NoSnapshot, after_load |-> FALSE]

\* generate_with_planning up to the intent: the load when it is needed; it
\* succeeds, or it raises and the warning is yielded
GenerateStart(load_ok) ==
    /\ session_pc = "idle"
    /\ session_calls < MaxSessionCalls
    /\ session_calls' = session_calls + 1
    /\ session_pc' = "route"
    /\ IF NeedsLoad(context_loaded)
       THEN /\ loads' = loads + 1
            /\ IF load_ok
               THEN cached_context' = project_state /\ context_loaded' = TRUE
               ELSE UNCHANGED <<cached_context, context_loaded>>
       ELSE UNCHANGED <<loads, cached_context, context_loaded>>
    /\ UNCHANGED <<project_state, last_prompt, NotSession>>

\* the tool loop entered by the debug, question and chat branches and by
\* recover_from_error: the system prompt is built from the cached snapshot
StreamPrompt ==
    last_prompt' = [built |-> TRUE, snapshot |-> PromptSnapshot(cached_context),
                    after_load |-> context_loaded]

\* generate_with_planning after the intent: the feature_request branch
\* builds no prompt from the snapshot; the other branches enter the tool
\* loop
GenerateRoute(intent) ==
    /\ session_pc = "route"
    /\ session_pc' = "idle"
    /\ IF intent = "feature_request" THEN UNCHANGED last_prompt ELSE StreamPrompt
    /\ UNCHANGED <<context_loaded, cached_context, project_state, loads, session_calls,
                   NotSession>>

\* recover_from_error: enters the tool loop without a load
RecoverCall ==
    /\ session_pc = "idle"
    /\ session_calls < MaxSessionCalls
    /\ session_calls' = session_calls + 1
    /\ StreamPrompt
    /\ UNCHANGED <<context_loaded, cached_context, project_state, loads, session_pc,
                   NotSession>>

\* tools and other requests change the project: files, tasks, errors
ProjectChanges ==
    /\ project_state < MaxProjectStates
    /\ project_state' = project_state + 1
    /\ UNCHANGED <<context_loaded, cached_context, loads, session_calls, session_pc,
                   last_prompt, NotSession>>

NextSession ==
    \/ \E load_ok \in BOOLEAN : GenerateStart(load_ok)
    \/ \E intent \in Intents : GenerateRoute(intent)
    \/ RecoverCall
    \/ ProjectChanges

max_retries == 3

\* a loop that runs once more
RetriesOneMore == max_retries + 1

\* the bound of "while retry_count < max_retries and not fixed"
RetryBound == max_retries

\* str(e) of the exceptions a run of the tool loop raises
FailureTexts == {"rate limit", "timeout"}

RunOutcomes == FailureTexts \cup {"completed"}

\* the parts error_context is put together from, first part first
ErrorContext(has_stack, has_context) ==
    <<"An error occurred">>
    \o (IF has_stack THEN <<"Stack Trace">> ELSE <<>>)
    \o (IF has_context THEN <<"Context">> ELSE <<>>)
    \o <<"Please">>

\* f"Previous fix failed with: {str(e)}\n\nPlease try a different
\* approach.\n\n{error_context}"
PrefixFailure(e, context) == <<e, "Please try a different approach">> \o context

NoMessage == <<>>

IdleRecover ==
    /\ retry_count = 0
    /\ recover_fixed = FALSE
    /\ recover_pc = "idle"
    /\ error_context = NoMessage
    /\ run_message = NoMessage
    /\ last_failure = "none"
    /\ recover_report = "none"

\* the call up to the loop: error_context is built from the arguments
RecoverStart(has_stack, has_context) ==
    /\ recover_pc = "idle"
    /\ recover_pc' = "loop"
    /\ error_context' = ErrorContext(has_stack, has_context)
    /\ UNCHANGED <<retry_count, recover_fixed, run_message, last_failure, recover_report,
                   NotRecover>>

\* one pass of the while loop: the tool loop is run with error_context; it
\* completes, or it raises and the failure is put before error_context
RecoverRun(outcome) ==
    /\ recover_pc = "loop"
    /\ retry_count < RetryBound /\ ~recover_fixed
    /\ retry_count' = retry_count + 1
    /\ run_message' = error_context
    /\ IF outcome = "completed"
       THEN /\ recover_fixed' = TRUE
            /\ UNCHANGED <<error_context, last_failure>>
       ELSE /\ error_context' = PrefixFailure(outcome, error_context)
            /\ last_failure' = outcome
            /\ UNCHANGED recover_fixed
    /\ UNCHANGED <<recover_pc, recover_report, NotRecover>>

\* after the loop: the report
RecoverEnd ==
    /\ recover_pc = "loop"
    /\ ~(retry_count < RetryBound /\ ~recover_fixed)
    /\ recover_pc' = "done"
    /\ recover_report' = IF recover_fixed THEN "Error successfully recovered"
                         ELSE "Could not auto-fix after 3 attempts"
    /\ UNCHANGED <<retry_count, recover_fixed, error_context, run_message, last_failure,
                   NotRecover>>

NextRecover ==
    \/ \E has_stack, has_context \in BOOLEAN : RecoverStart(has_stack, has_context)
    \/ \E outcome \in RunOutcomes : RecoverRun(outcome)
    \/ RecoverEnd

\* ------------------------------------------------------------------------
\* Claims about recover_from_error
\* ------------------------------------------------------------------------
\* C26: recover_from_error ends after at most 3 runs of the tool loop; it
\* stops at the first run that completes without raising and then reports
\* recovery; after a run that raised the next run's message begins with that
\* run's failure text; when all 3 runs raised it reports that it could not
\* auto-fix after 3 attempts.
C26_RecoverBounded ==
    [][/\ retry_count' <= 3
       /\ recover_fixed => retry_count' = retry_count
       /\ (retry_count' = retry_count + 1 /\ retry_count >= 1) =>
            /\ last_failure \in FailureTexts
            /\ run_message'[1] = last_failure
       /\ (recover_pc = "loop" /\ recover_pc' = "done") =>
            /\ recover_fixed => recover_report' = "Error successfully recovered"
            /\ ~recover_fixed => /\ retry_count = 3
                         /\ recover_report' = "Could not auto-fix after 3 attempts"]_vars

\* all three runs raised and the report says so; the third run was given
\* the second run's failure first
C26_Witness ==
    /\ recover_pc = "done" /\ retry_count = 3 /\ ~recover_fixed
    /\ recover_report = "Could not auto-fix after 3 attempts"
    /\ run_message[1] = "timeout" /\ last_failure = "rate limit"

\* ------------------------------------------------------------------------
\* The warning of the tool-calling loop
\* ------------------------------------------------------------------------
\* the last response of the invocation asked for no tool: the loop was left
\* by its break
EndedByAnswer ==
    /\ conversation_history # <<>>
    /\ conversation_history[Len(conversation_history)].role = "assistant"
    /\ conversation_history[Len(conversation_history)].tool_calls = <<>>

\* C27: the maximum-iterations warning is emitted only when the response of
\* the 5th model call still requested tool calls; an invocation in which the
\* model answered without tool calls at any iteration from 1 to 5 ends
\* without the warning.
C27_WarningOnlyWhenExceeded ==
    (stream_pc = "done" /\ EndedByAnswer) => last_chunk # "max_iterations_warning"

\* the 5th response asked for no tool, and the warning was emitted
C27_Witness ==
    /\ stream_pc = "done"
    /\ model_calls = max_iterations
    /\ EndedByAnswer
    /\ last_chunk = "max_iterations_warning"

\* an answer without tool calls at one of the first four iterations ends
\* the invocation without the warning
C27_NoWarningBeforeFifth ==
    (stream_pc = "done" /\ EndedByAnswer /\ model_calls < max_iterations) =>
        last_chunk # "max_iterations_warning"

\* ------------------------------------------------------------------------
\* The file store and the preview build
\* ------------------------------------------------------------------------
\* C30: a file persisted for the project by a successful create_file or
\* update_file is among the active files the next build loads, and, when it
\* is a frontend file, among those it writes into the workspace: the store
\* the dispatcher writes and the store the build reads hold the same files.
C30_BuildLoadsPersisted ==
    build_loaded.ran =>
        /\ build_loaded.stored \subseteq build_loaded.rows
        /\ build_loaded.stored \ BackendPaths \subseteq build_loaded.files

\* a build after a successful create_file of a frontend file found no file
\* and ended with 404
C30_Witness ==
    /\ file_resp.op = "build" /\ file_resp.status = 404
    /\ build_loaded.ran /\ build_loaded.rows = {}
    /\ PathNames[1] \in build_loaded.stored
    /\ HasFile(project_files, PathNames[1])

\* create_file and update_file leave generated_files as it is
C30_DispatcherLeavesGenerated ==
    [][file_resp'.op \in {"create", "update"} => generated_files' = generated_files]_vars

\* ========================================================================
\* Specifications
\* ========================================================================
InitBackend ==
    BackendInitial /\ IdleTool /\ IdleStream /\ IdleHeal /\ IdleContext /\ IdleFiles /\
    IdlePackages /\ IdleWorkspace /\ IdlePlan /\ IdleSession /\ IdleRecover
SpecBackend == InitBackend /\ [][NextBackend]_vars

InitTool ==
    IdleBackend /\ ToolInputs /\ IdleStream /\ IdleHeal /\ IdleContext /\ IdleFiles /\
    IdlePackages /\ IdleWorkspace /\ IdlePlan /\ IdleSession /\ IdleRecover
SpecTool == InitTool /\ [][NextTool]_vars

InitStream ==
    IdleBackend /\ IdleTool /\ IdleStream /\ IdleHeal /\ IdleContext /\ IdleFiles /\
    IdlePackages /\ IdleWorkspace /\ IdlePlan /\ IdleSession /\ IdleRecover
SpecStream == InitStream /\ [][NextStream]_vars

InitHeal ==
    IdleBackend /\ IdleTool /\ IdleStream /\ IdleHeal /\ IdleContext /\ IdleFiles /\
    IdlePackages /\ IdleWorkspace /\ IdlePlan /\ IdleSession /\ IdleRecover
SpecHeal == InitHeal /\ [][NextHeal]_vars

InitFix ==
    IdleBackend /\ IdleTool /\ IdleStream /\ FixEntry /\ IdleContext /\ IdleFiles /\
    IdlePackages /\ IdleWorkspace /\ IdlePlan /\ IdleSession /\ IdleRecover
SpecFix == InitFix /\ [][NextFix]_vars

InitContext ==
    IdleBackend /\ IdleTool /\ IdleStream /\ IdleHeal /\ ContextInitial /\ IdleFiles /\
    IdlePackages /\ IdleWorkspace /\ IdlePlan /\ IdleSession /\ IdleRecover
SpecContext == InitContext /\ [][NextContext]_vars

InitTwice ==
    IdleBackend /\ IdleTool /\ IdleStream /\ IdleHeal /\ TwiceEntry /\ IdleFiles /\
    IdlePackages /\ IdleWorkspace /\ IdlePlan /\ IdleSession /\ IdleRecover
SpecTwice == InitTwice /\ [][NextTwice]_vars

InitFiles ==
    IdleBackend /\ IdleTool /\ IdleStream /\ IdleHeal /\ IdleContext /\ FilesInitial /\
    IdlePackages /\ IdleWorkspace /\ IdlePlan /\ IdleSession /\ IdleRecover
SpecFiles == InitFiles /\ [][NextFiles]_vars

InitPackages ==
    IdleBackend /\ IdleTool /\ IdleStream /\ IdleHeal /\ IdleContext /\ IdleFiles /\
    PackagesInitial /\ IdleWorkspace /\ IdlePlan /\ IdleSession /\ IdleRecover
SpecPackages == InitPackages /\ [][NextPackages]_vars

InitWorkspace ==
    IdleBackend /\ IdleTool /\ IdleStream /\ IdleHeal /\ IdleContext /\ IdleFiles /\
    IdlePackages /\ IdleWorkspace /\ IdlePlan /\ IdleSession /\ IdleRecover
SpecWorkspace == InitWorkspace /\ [][NextWorkspace]_vars

InitPlan ==
    IdleBackend /\ IdleTool /\ IdleStream /\ IdleHeal /\ IdleContext /\ IdleFiles /\
    IdlePackages /\ IdleWorkspace /\ PlanInitial /\ IdleSession /\ IdleRecover
SpecPlan == InitPlan /\ [][NextPlan]_vars

InitSession ==
    IdleBackend /\ IdleTool /\ IdleStream /\ IdleHeal /\ IdleContext /\ IdleFiles /\
    IdlePackages /\ IdleWorkspace /\ IdlePlan /\ IdleSession /\ IdleRecover
SpecSession == InitSession /\ [][NextSession]_vars

InitRecover ==
    IdleBackend /\ IdleTool /\ IdleStream /\ IdleHeal /\ IdleContext /\ IdleFiles /\
    IdlePackages /\ IdleWorkspace /\ IdlePlan /\ IdleSession /\ IdleRecover
SpecRecover == InitRecover /\ [][NextRecover]_vars

====
